---- MODULE Spec2Model ----
(***************************************************************************)
(* Model of the account dashboard client (user-account-dashboard/src/App.js *)
(* and the standalone pages): the session held by App, the router, and one  *)
(* form controller per screen.  Strings that the code inspects character by *)
(* character (emails, passwords, card numbers, expiry, cvv) are sequences   *)
(* of one-character strings; strings that the code only tests for           *)
(* emptiness or copies are TLA+ strings.                                    *)
(***************************************************************************)
EXTENDS Integers, Sequences, FiniteSets, Bags, TLC

VARIABLES
  token,       \* App: useState(() => localStorage.getItem("token"))
  user,        \* App: useState(null)
  stored,      \* localStorage entry "token"
  route,       \* location shown by the router
  activePage,  \* Dashboard: useState("overview")
  login,       \* LoginPage state: form, status, loading
  signup,      \* SignupPage state: form, status, loading
  prof,        \* UserProfile state
  notif,       \* Notifications state
  bill,        \* Billing state
  plans,       \* Plans state
  pages,       \* standalone pages/Signup component state
  net,         \* HTTP requests in flight (a bag: two alike may be pending)
  last         \* history: the handler that ran last and what it did

vars == <<token, user, stored, route, activePage, login, signup, prof,
          notif, bill, plans, pages, net, last>>

----------------------------------------------------------------------------
(* Bounds *)

MaxInFlight == 2      \* requests in flight at once
MaxPwLen == 9         \* longest password drawn for the validatePassword check
MaxDigits == 17       \* most digits in a card number drawn for validateBilling
MaxSeps == 3          \* most separators in a card number drawn for validateBilling
MaxEmailLen == 6      \* longest invoice e-mail drawn for the emailRegex check

----------------------------------------------------------------------------
(* Characters and strings *)

Digits == {"0", "1", "2", "3", "4", "5", "6", "7", "8", "9"}

Upper == {"A", "B", "C", "D", "E", "F", "G", "H", "I", "J", "K", "L", "M",
          "N", "O", "P", "Q", "R", "S", "T", "U", "V", "W", "X", "Y", "Z"}

Lower == {"a", "b", "c", "d", "e", "f", "g", "h", "i", "j", "k", "l", "m",
          "n", "o", "p", "q", "r", "s", "t", "u", "v", "w", "x", "y", "z"}

Whitespace == {" "}

\* regex.test(s) for a single character class: some character of s is in cls
HasChar(s, cls) == \E i \in 1..Len(s) : s[i] \in cls

\* StripNonDigits that strips nothing
StripNothing(s) == s

\* s.replace(/\D/g, "")
RECURSIVE StripNonDigits(_)
StripNonDigits(s) ==
  IF s = <<>> THEN <<>>
  ELSE IF Head(s) \in Digits THEN <<Head(s)>> \o StripNonDigits(Tail(s))
  ELSE StripNonDigits(Tail(s))

DigitVal(c) ==
  CASE c = "0" -> 0 [] c = "1" -> 1 [] c = "2" -> 2 [] c = "3" -> 3
    [] c = "4" -> 4 [] c = "5" -> 5 [] c = "6" -> 6 [] c = "7" -> 7
    [] c = "8" -> 8 [] c = "9" -> 9

\* the leading run of digits of s
RECURSIVE DigitPrefix(_)
DigitPrefix(s) ==
  IF s = <<>> \/ Head(s) \notin Digits THEN <<>>
  ELSE <<Head(s)>> \o DigitPrefix(Tail(s))

RECURSIVE DigitsToNat(_)
DigitsToNat(d) ==
  IF d = <<>> THEN 0
  ELSE 10 * DigitsToNat(SubSeq(d, 1, Len(d) - 1)) + DigitVal(d[Len(d)])

NaN == -1

\* parseInt(s, 10) on the strings a text input yields here (no sign, no
\* leading blanks): the leading digits, NaN when there are none
ParseInt(s) ==
  IF DigitPrefix(s) = <<>> THEN NaN ELSE DigitsToNat(DigitPrefix(s))

----------------------------------------------------------------------------
(* Helpers of App.js *)

PLAN_PRICING == [basic |-> 0, pro |-> 499, enterprise |-> 1499]

ADDON_PRICING == [extra_storage |-> 199, priority_support |-> 299]

\* the pattern without its "@" exclusions: /^[^\s]+@[^\s]+\.[^\s]+$/
emailRegexAnyAt(s) ==
  \E i \in 2..Len(s) : \E j \in (i + 2)..(Len(s) - 1) :
    /\ s[i] = "@"
    /\ s[j] = "."
    /\ \A k \in 1..Len(s) : s[k] \notin Whitespace

\* /^[^\s@]+@[^\s@]+\.[^\s@]+$/.test(s)
emailRegexTest(s) ==
  \E i \in 2..Len(s) : \E j \in (i + 2)..(Len(s) - 1) :
    /\ s[i] = "@"
    /\ s[j] = "."
    /\ \A k \in 1..Len(s) :
         k # i => s[k] \notin (Whitespace \cup {"@"})

\* <Form.Control type="email" required>: what the browser lets a form
\* submit (the HTML valid-e-mail-address syntax over the characters used
\* here): a non-empty local part, one "@", and dot-separated labels of
\* letters and digits
TypeEmailOk(s) ==
  \E i \in 2..(Len(s) - 1) :
    /\ s[i] = "@"
    /\ \A k \in 1..(i - 1) : s[k] \in Lower \cup Upper \cup Digits \cup {".", "-"}
    /\ \A k \in (i + 1)..Len(s) :
         \/ s[k] \in Lower \cup Upper \cup Digits
         \/ /\ s[k] = "."
            /\ k > i + 1
            /\ k < Len(s)
            /\ s[k - 1] # "."

MsgTooShort == "Password must be at least 8 characters"
MsgNoUpper == "Password must contain at least one uppercase letter"
MsgNoDigit == "Password must contain at least one digit"

\* validatePassword with the digit test ahead of the upper-case test
validatePasswordDigitFirst(password) ==
  IF Len(password) < 8 THEN MsgTooShort
  ELSE IF ~HasChar(password, Digits) THEN MsgNoDigit
  ELSE IF ~HasChar(password, Upper) THEN MsgNoUpper
  ELSE ""

validatePassword(password) ==
  IF Len(password) < 8 THEN MsgTooShort
  ELSE IF ~HasChar(password, Upper) THEN MsgNoUpper
  ELSE IF ~HasChar(password, Digits) THEN MsgNoDigit
  ELSE ""

----------------------------------------------------------------------------
(* Values *)

Null == "null"                 \* a null / undefined / empty token

Tokens == {"T1", "T2"}         \* tokens the server hands out

NoUser == [none |-> TRUE]      \* user === null (or undefined)

\* the profile the server keeps for the account a token belongs to
UserOf(tok) ==
  IF tok = "T1"
  THEN [email |-> "ann@x.io", first_name |-> "Ann", last_name |-> "Lee"]
  ELSE [email |-> "bob@x.io", first_name |-> "Bob", last_name |-> "Ray"]

\* u.f, "" when the object has no such field (user?.f || "")
Field(u, f) == IF f \in DOMAIN u THEN u[f] ELSE ""

NoStatus == [type |-> "none", message |-> ""]        \* status === null
Danger(m) == [type |-> "danger", message |-> m]
Success(m) == [type |-> "success", message |-> m]

\* res.data.message of a successful response ("" when the body has none)
ServerMsgs == {"done"}

\* What a failed request rejects with: err.response?.data?.error,
\* err.response?.data?.message and err.message (code 0: no response at all)
Failures ==
  { [code |-> 401, error |-> "token expired", message |-> "unauthorized",
     transport |-> "Request failed with status code 401"],
    [code |-> 500, error |-> "", message |-> "server error",
     transport |-> "Request failed with status code 500"],
    [code |-> 0, error |-> "", message |-> "", transport |-> "Network Error"] }

\* the choice with "message" tried before "error"
ErrMsgMessageFirst(f) ==
  IF f.message # "" THEN f.message
  ELSE IF f.error # "" THEN f.error
  ELSE f.transport

\* err.response?.data?.error || err.response?.data?.message || err.message
ErrMsg(f) ==
  IF f.error # "" THEN f.error
  ELSE IF f.message # "" THEN f.message
  ELSE f.transport

NoReq == [kind |-> "none"]

----------------------------------------------------------------------------
(* What the user can type *)

GoodEmail == <<"a", "@", "b", ".", "c">>
BadEmail == <<"a", "@", "b">>
EmailInputs == {GoodEmail, BadEmail}

GoodPw == <<"P", "a", "s", "s", "w", "o", "r", "1">>
WeakPw == <<"p", "a", "s", "s">>
PwInputs == {GoodPw, WeakPw}

NameInputs == {"", "Zed"}      \* a first name typed into a form
LastNameInputs == {"", "Lee"}  \* a last name typed into a form
SecretInputs == {"", "pw"}     \* a password the code only tests for emptiness

----------------------------------------------------------------------------
(* Initial state of each component (its useState defaults) *)

LoginInit ==
  [form |-> [email |-> <<>>, password |-> ""],
   status |-> NoStatus, loading |-> FALSE]

SignupInit ==
  [form |-> [email |-> <<>>, first_name |-> "", last_name |-> "",
             password |-> <<>>, confirm_password |-> <<>>],
   status |-> NoStatus, loading |-> FALSE]

ProfInit(u) ==
  [profile |-> [email |-> Field(u, "email"),
                first_name |-> Field(u, "first_name"),
                last_name |-> Field(u, "last_name")],
   mode |-> "view", status |-> NoStatus, loading |-> FALSE,
   nameForm |-> [first_name |-> "", last_name |-> "", current_password |-> ""],
   passForm |-> [old_password |-> "", new_password |-> <<>>,
                 confirm_password |-> <<>>],
   deletePassword |-> ""]

NotifInit ==
  [form |-> [email_notifications |-> TRUE, sms_notifications |-> FALSE,
             push_notifications |-> TRUE],
   status |-> NoStatus, loading |-> FALSE]

BillInit ==
  [form |-> [cardholder_name |-> "", card_number |-> <<>>,
             expiry_month |-> <<>>, expiry_year |-> <<>>, cvv |-> <<>>,
             invoice_email |-> <<>>],
   status |-> NoStatus, loading |-> FALSE, hasPaymentMethod |-> FALSE]

PlansInit ==
  [form |-> [plan |-> "basic", extra_storage |-> FALSE,
             priority_support |-> FALSE],
   status |-> NoStatus, loading |-> FALSE, hasPaymentMethod |-> FALSE]

PagesInit == [data |-> [email |-> <<>>, password |-> <<>>, confirm |-> <<>>]]

NoEvent == [op |-> "none", out |-> "", res |-> NoReq]

\* req: the request issued or answered (not recorded), res: the response
Event(op, out, req, res) == [op |-> op, out |-> out, res |-> res]

----------------------------------------------------------------------------
(* Router and component lifecycle *)

\* <Routes> with /dashboard outside ProtectedRoute
ResolveUnprotected(path, tok) ==
  IF path \in {"/login", "/signup", "pages/Signup", "/dashboard"} THEN path
  ELSE IF tok # Null THEN "/dashboard"
  ELSE "/login"

\* <Routes>: "/" and "*" redirect by token, /dashboard is behind
\* ProtectedRoute; /login and /signup render whatever the token is
Resolve(path, tok) ==
  IF path \in {"/login", "/signup", "pages/Signup"} THEN path
  ELSE IF tok # Null THEN "/dashboard"
  ELSE "/login"

\* Which component the router and Dashboard.renderContent show
Shown(c, rt, ap) ==
  CASE c = "login" -> rt = "/login"
    [] c = "signup" -> rt = "/signup"
    [] c = "pages" -> rt = "pages/Signup"
    [] c = "app" -> TRUE
    [] OTHER -> rt = "/dashboard" /\ ap = c

NoBody == [none |-> TRUE]

\* a request issued by component `from` while the token prop is tok
Req(kind, from, tok, body) ==
  [kind |-> kind, from |-> from, orphan |-> FALSE, tok |-> tok, body |-> body]

\* the bag n with one more / one less copy of request r
Sent(n, r) == n (+) SetToBag({r})
Answered(n, r) == n (-) SetToBag({r})

\* The requests whose continuation calls into App (onAuthSuccess, setUser,
\* onLogout, navigate); every other continuation only sets the state of the
\* component that issued the request
ReachesApp == {"loadMe", "login", "signup", "fetchProfile", "putProfile",
               "deleteAccount", "pagesSignup"}

\* the components that issue requests
Components == {"app", "login", "signup", "pages", "profile", "notifications",
               "billing", "plans"}

\* The requests of n after the components in `gone` unmounted: setState on
\* an unmounted component is lost, so a pending continuation that reaches
\* App runs on as an orphan and any other has no effect left and is dropped
Orphaned(n, gone) ==
  LET mark(r) == IF r.from \in gone THEN [r EXCEPT !.orphan = TRUE] ELSE r
      img == { mark(r) : r \in { x \in BagToSet(n) :
                                   x.from \in gone => x.kind \in ReachesApp } }
      RECURSIVE copies(_)
      copies(rs) == IF rs = {} THEN 0
                    ELSE LET r == CHOOSE x \in rs : TRUE
                         IN CopiesIn(r, n) + copies(rs \ {r})
  IN [x \in img |-> copies({ r \in BagToSet(n) : mark(r) = x })]

\* nameForm is read only in editName mode and passForm only in
\* changePassword mode, and openEditName / openChangePassword overwrite
\* every field of them: outside its mode a form's content is dead, and the
\* model keeps the defaults in its place
LiveForms(pf) ==
  [pf EXCEPT
     !.nameForm = IF pf.mode = "editName" THEN @ ELSE ProfInit(NoUser).nameForm,
     !.passForm = IF pf.mode = "changePassword" THEN @
                  ELSE ProfInit(NoUser).passForm]

\* The state as the handlers of this step leave it
Cur ==
  [token |-> token, user |-> user, stored |-> stored, route |-> route,
   activePage |-> activePage, login |-> login, signup |-> signup,
   prof |-> prof, notif |-> notif, bill |-> bill, plans |-> plans,
   pages |-> pages, net |-> net]

\* What was rendered in state st (mounted: FALSE at a page load)
OldOf(st) ==
  [mounted |-> TRUE, route |-> st.route, activePage |-> st.activePage,
   token |-> st.token, user |-> st.user]

Old == OldOf(Cur)

Unloaded ==
  [mounted |-> FALSE, route |-> "", activePage |-> "", token |-> Null,
   user |-> NoUser]

\* The render that follows a handler: the route guard, components unmounted
\* (their state is dropped, their pending continuations only reach App) and
\* mounted (useState defaults, then the mount effect), and App's loadMe effect
Settle(old, p) ==
  LET rt == Resolve(p.route, p.token)
      ap == IF rt = "/dashboard" /\ old.mounted /\ old.route = "/dashboard"
            THEN p.activePage ELSE "overview"
      was(c) == old.mounted /\ Shown(c, old.route, old.activePage)
      now(c) == Shown(c, rt, ap)
      keep(c) == was(c) /\ now(c)
      mount(c) == now(c) /\ ~was(c)
      n0 == Orphaned(p.net, { c \in Components : ~now(c) })
      n1 == IF mount("profile") /\ p.user = NoUser
            THEN Sent(n0, Req("fetchProfile", "profile", p.token, NoBody))
            ELSE n0
      n2 == IF mount("notifications")
            THEN Sent(n1, Req("loadSettings", "notifications", p.token, NoBody))
            ELSE n1
      n3 == IF mount("billing")
            THEN Sent(n2, Req("loadBilling", "billing", p.token, [viaSave |-> FALSE]))
            ELSE n2
      n4 == IF mount("plans")
            THEN Sent(n3, Req("loadPlans", "plans", p.token, NoBody))
            ELSE n3
      \* useEffect(loadMe, [token, user])
      n5 == IF /\ p.token # Null
               /\ p.user = NoUser
               /\ (~old.mounted \/ p.token # old.token \/ p.user # old.user)
            THEN Sent(n4, Req("loadMe", "app", p.token, NoBody))
            ELSE n4
  IN [token |-> p.token, user |-> p.user, stored |-> p.stored,
      route |-> rt, activePage |-> ap,
      login |-> IF keep("login") THEN p.login ELSE LoginInit,
      signup |-> IF keep("signup") THEN p.signup ELSE SignupInit,
      prof |-> IF keep("profile") THEN LiveForms(p.prof)
               ELSE IF mount("profile")
                 THEN IF p.user = NoUser
                      THEN [ProfInit(NoUser) EXCEPT !.loading = TRUE]
                      ELSE ProfInit(p.user)
               ELSE ProfInit(NoUser),
      notif |-> IF keep("notifications") THEN p.notif
                ELSE IF mount("notifications")
                  THEN [NotifInit EXCEPT !.loading = TRUE]
                ELSE NotifInit,
      bill |-> IF keep("billing") THEN p.bill
               ELSE IF mount("billing") THEN [BillInit EXCEPT !.loading = TRUE]
               ELSE BillInit,
      plans |-> IF keep("plans") THEN p.plans
                ELSE IF mount("plans") THEN [PlansInit EXCEPT !.loading = TRUE]
                ELSE PlansInit,
      pages |-> IF keep("pages") THEN p.pages ELSE PagesInit,
      net |-> n5]

Become(st, ev) ==
  /\ BagCardinality(st.net) <= MaxInFlight
  /\ token' = st.token
  /\ user' = st.user
  /\ stored' = st.stored
  /\ route' = st.route
  /\ activePage' = st.activePage
  /\ login' = st.login
  /\ signup' = st.signup
  /\ prof' = st.prof
  /\ notif' = st.notif
  /\ bill' = st.bill
  /\ plans' = st.plans
  /\ pages' = st.pages
  /\ net' = st.net
  /\ last' = ev

\* A handler's step: the handlers' state changes p, then the render
Step(p, ev) == Become(Settle(Old, p), ev)

\* A page load whose App starts with useState(null) for the token
PageLoadNoRestore(sto, path) ==
  Settle(Unloaded,
         [token |-> Null, user |-> NoUser, stored |-> sto, route |-> path,
          activePage |-> "overview", login |-> LoginInit,
          signup |-> SignupInit, prof |-> ProfInit(NoUser),
          notif |-> NotifInit, bill |-> BillInit, plans |-> PlansInit,
          pages |-> PagesInit, net |-> EmptyBag])

\* A page load at `path` with `sto` in localStorage: App mounts, token is
\* read from localStorage, every component starts from its defaults
PageLoad(sto, path) ==
  Settle(Unloaded,
         [token |-> sto, user |-> NoUser, stored |-> sto, route |-> path,
          activePage |-> "overview", login |-> LoginInit,
          signup |-> SignupInit, prof |-> ProfInit(NoUser),
          notif |-> NotifInit, bill |-> BillInit, plans |-> PlansInit,
          pages |-> PagesInit, net |-> EmptyBag])

Paths == {"/", "/login", "/signup", "/dashboard", "pages/Signup"}

\* The run starts in one of the states of S
StartIn(S) ==
  \E st \in S :
    /\ token = st.token
    /\ user = st.user
    /\ stored = st.stored
    /\ route = st.route
    /\ activePage = st.activePage
    /\ login = st.login
    /\ signup = st.signup
    /\ prof = st.prof
    /\ notif = st.notif
    /\ bill = st.bill
    /\ plans = st.plans
    /\ pages = st.pages
    /\ net = st.net
    /\ last = NoEvent

\* The app is opened at one of `paths` with one of `stos` in localStorage
Start(stos, paths) ==
  StartIn({ PageLoad(sto, path) : sto \in stos, path \in paths })

\* The user opens a URL or reloads: the page and its pending requests go
OpenUrl ==
  \E path \in Paths :
    Become(PageLoad(stored, path), Event("OpenUrl", path, NoReq, NoReq))

\* <Link to="/signup"> on the login page, <Link to="/login"> on signup
ClickLink ==
  \/ /\ route = "/login"
     /\ Step([Cur EXCEPT !.route = "/signup"],
             Event("ClickLink", "/signup", NoReq, NoReq))
  \/ /\ route = "/signup"
     /\ Step([Cur EXCEPT !.route = "/login"],
             Event("ClickLink", "/login", NoReq, NoReq))

\* handleAuthSuccess without localStorage.setItem
handleAuthSuccessNoStore(p, newToken, userData) ==
  [p EXCEPT !.token = newToken, !.user = userData]

\* App.handleAuthSuccess(newToken, userData)
handleAuthSuccess(p, newToken, userData) ==
  [p EXCEPT !.stored = newToken, !.token = newToken, !.user = userData]

\* handleLogout without setUser(null)
handleLogoutKeepUser(p) ==
  [p EXCEPT !.stored = Null, !.token = Null]

\* handleLogout without localStorage.removeItem
handleLogoutKeepStored(p) ==
  [p EXCEPT !.token = Null, !.user = NoUser]

\* App.handleLogout()
handleLogout(p) ==
  [p EXCEPT !.stored = Null, !.token = Null, !.user = NoUser]

\* Sidebar: the Logout link calls onLogout and links to /login
Logout ==
  /\ route = "/dashboard"
  /\ Step([handleLogout(Cur) EXCEPT !.route = "/login"],
          Event("Logout", "", NoReq, NoReq))

\* Sidebar: setActivePage(pg)
SetActivePage(pg) ==
  /\ route = "/dashboard"
  /\ activePage # pg
  /\ Step([Cur EXCEPT !.activePage = pg],
          Event("SetActivePage", pg, NoReq, NoReq))

GoOverview == SetActivePage("overview")
GoProfile == SetActivePage("profile")
GoNotifications == SetActivePage("notifications")
GoBilling == SetActivePage("billing")
GoPlans == SetActivePage("plans")

\* the catch of loadMe without localStorage.removeItem
loadMeCatchKeepStored(p) ==
  [p EXCEPT !.token = Null, !.user = NoUser]

\* App.loadMe, catch: "Token invalid or expired - clear it"
loadMeCatch(p) ==
  [p EXCEPT !.stored = Null, !.token = Null, !.user = NoUser]

\* loadMe whose try drops the response instead of setUser(res.data)
RespLoadMeDropsUser ==
  \E r \in BagToSet(net) :
    /\ r.kind = "loadMe"
    /\ LET p == [Cur EXCEPT !.net = Answered(net, r)]
           u == UserOf(r.tok)
       IN \/ Step(p, Event("RespLoadMe", "ok", r, u))
          \/ \E f \in Failures :
               Step(loadMeCatch(p), Event("RespLoadMe", "fail", r, f))

\* App.loadMe: the GET /auth/me it issued resolves
RespLoadMe ==
  \E r \in BagToSet(net) :
    /\ r.kind = "loadMe"
    /\ LET p == [Cur EXCEPT !.net = Answered(net, r)]
           u == UserOf(r.tok)
       IN \/ Step([p EXCEPT !.user = u], Event("RespLoadMe", "ok", r, u))
          \/ \E f \in Failures :
               Step(loadMeCatch(p), Event("RespLoadMe", "fail", r, f))

----------------------------------------------------------------------------
(* LoginPage *)

MsgBadEmail == "Invalid email format"

LoginChange ==
  /\ route = "/login"
  /\ \/ \E v \in EmailInputs \ {login.form.email} :
          Step([Cur EXCEPT !.login.form.email = v],
               Event("LoginChange", "email", NoReq, NoReq))
     \/ \E v \in SecretInputs \ {login.form.password} :
          Step([Cur EXCEPT !.login.form.password = v],
               Event("LoginChange", "password", NoReq, NoReq))

\* The browser submits the login form: the submit button is
\* disabled={loading}, the email input is type="email" required and
\* PasswordInput is required
loginSubmittable ==
  /\ ~login.loading
  /\ TypeEmailOk(login.form.email)
  /\ login.form.password # ""

\* LoginPage.handleSubmit up to the await
LoginSubmit ==
  /\ route = "/login"
  /\ loginSubmittable
  /\ IF ~emailRegexTest(login.form.email)
     THEN Step([Cur EXCEPT !.login.status = Danger(MsgBadEmail)],
               Event("LoginSubmit", "rejected", NoReq, NoReq))
     ELSE LET r == Req("login", "login", Null, login.form)
          IN Step([Cur EXCEPT !.login.status = NoStatus,
                              !.login.loading = TRUE,
                              !.net = Sent(net, r)],
                  Event("LoginSubmit", "sent", r, NoReq))

\* handleSubmit after the await without the `if (token)` test: a response
\* with no token is handed to onAuthSuccess too
RespLoginNoTokenTest ==
  \E r \in BagToSet(net) :
    /\ r.kind = "login"
    /\ LET p == [Cur EXCEPT !.net = Answered(net, r)]
           done(st) == IF r.orphan THEN p
                       ELSE [p EXCEPT !.login.status = st,
                                      !.login.loading = FALSE]
       IN \/ \E tk \in Tokens : \E u \in {UserOf(tk), NoUser} :
               Step([handleAuthSuccess(p, tk, u) EXCEPT !.route = "/dashboard"],
                    Event("RespLogin", "token", r, [token |-> tk, user |-> u]))
          \/ \E m \in ServerMsgs :
               Step([handleAuthSuccess(p, Null, NoUser)
                       EXCEPT !.route = "/dashboard"],
                    Event("RespLogin", "notoken", r, [message |-> m]))
          \/ \E f \in Failures :
               Step(done(Danger(ErrMsg(f))), Event("RespLogin", "fail", r, f))

\* LoginPage.handleSubmit after the await: try / catch / finally
RespLogin ==
  \E r \in BagToSet(net) :
    /\ r.kind = "login"
    /\ LET p == [Cur EXCEPT !.net = Answered(net, r)]
           done(st) == IF r.orphan THEN p
                       ELSE [p EXCEPT !.login.status = st,
                                      !.login.loading = FALSE]
       IN \/ \E tk \in Tokens : \E u \in {UserOf(tk), NoUser} :
               Step([handleAuthSuccess(p, tk, u) EXCEPT !.route = "/dashboard"],
                    Event("RespLogin", "token", r, [token |-> tk, user |-> u]))
          \/ \E m \in ServerMsgs :
               Step(done(Success(m)),
                    Event("RespLogin", "notoken", r, [message |-> m]))
          \/ \E f \in Failures :
               Step(done(Danger(ErrMsg(f))), Event("RespLogin", "fail", r, f))

----------------------------------------------------------------------------
(* SignupPage *)

MsgMismatch == "Password and Confirm Password do not match"

SignupChange ==
  /\ route = "/signup"
  /\ \/ \E v \in EmailInputs \ {signup.form.email} :
          Step([Cur EXCEPT !.signup.form.email = v],
               Event("SignupChange", "email", NoReq, NoReq))
     \/ \E v \in NameInputs \ {signup.form.first_name} :
          Step([Cur EXCEPT !.signup.form.first_name = v],
               Event("SignupChange", "first_name", NoReq, NoReq))
     \/ \E v \in LastNameInputs \ {signup.form.last_name} :
          Step([Cur EXCEPT !.signup.form.last_name = v],
               Event("SignupChange", "last_name", NoReq, NoReq))
     \/ \E v \in PwInputs \ {signup.form.password} :
          Step([Cur EXCEPT !.signup.form.password = v],
               Event("SignupChange", "password", NoReq, NoReq))
     \/ \E v \in PwInputs \ {signup.form.confirm_password} :
          Step([Cur EXCEPT !.signup.form.confirm_password = v],
               Event("SignupChange", "confirm_password", NoReq, NoReq))

\* signupCheck without the comparison of password and confirm_password
signupCheckNoConfirm(form) ==
  IF ~emailRegexTest(form.email) THEN MsgBadEmail
  ELSE IF validatePassword(form.password) # ""
    THEN validatePassword(form.password)
  ELSE ""

\* The pre-submit checks of SignupPage.handleSubmit: the message of the
\* first one that fails, "" when all pass
signupCheck(form) ==
  IF ~emailRegexTest(form.email) THEN MsgBadEmail
  ELSE IF validatePassword(form.password) # ""
    THEN validatePassword(form.password)
  ELSE IF form.password # form.confirm_password THEN MsgMismatch
  ELSE ""

\* The browser submits the signup form: button disabled={loading}, email
\* type="email" required, the names and both PasswordInputs required
signupSubmittable ==
  /\ ~signup.loading
  /\ TypeEmailOk(signup.form.email)
  /\ signup.form.first_name # ""
  /\ signup.form.last_name # ""
  /\ signup.form.password # <<>>
  /\ signup.form.confirm_password # <<>>

\* SignupPage.handleSubmit up to the await
SignupSubmit ==
  /\ route = "/signup"
  /\ signupSubmittable
  /\ IF signupCheck(signup.form) # ""
     THEN Step([Cur EXCEPT !.signup.status = Danger(signupCheck(signup.form))],
               Event("SignupSubmit", "rejected", NoReq, NoReq))
     ELSE LET r == Req("signup", "signup", Null, signup.form)
          IN Step([Cur EXCEPT !.signup.status = NoStatus,
                              !.signup.loading = TRUE,
                              !.net = Sent(net, r)],
                  Event("SignupSubmit", "sent", r, NoReq))

\* SignupPage.handleSubmit after the await
RespSignup ==
  \E r \in BagToSet(net) :
    /\ r.kind = "signup"
    /\ LET p == [Cur EXCEPT !.net = Answered(net, r)]
           done(st) == IF r.orphan THEN p
                       ELSE [p EXCEPT !.signup.status = st,
                                      !.signup.loading = FALSE]
       IN \/ \E tk \in Tokens : \E u \in {UserOf(tk), NoUser} :
               Step([handleAuthSuccess(p, tk, u) EXCEPT !.route = "/dashboard"],
                    Event("RespSignup", "token", r, [token |-> tk, user |-> u]))
          \/ \E m \in ServerMsgs :
               Step(done(Success(m)),
                    Event("RespSignup", "notoken", r, [message |-> m]))
          \/ \E f \in Failures :
               Step(done(Danger(ErrMsg(f))), Event("RespSignup", "fail", r, f))

----------------------------------------------------------------------------
(* The standalone Signup page (pages) *)

PagesChange ==
  /\ route = "pages/Signup"
  /\ \/ \E v \in EmailInputs \ {pages.data.email} :
          Step([Cur EXCEPT !.pages.data.email = v],
               Event("PagesChange", "email", NoReq, NoReq))
     \/ \E v \in PwInputs \ {pages.data.password} :
          Step([Cur EXCEPT !.pages.data.password = v],
               Event("PagesChange", "password", NoReq, NoReq))
     \/ \E v \in PwInputs \ {pages.data.confirm} :
          Step([Cur EXCEPT !.pages.data.confirm = v],
               Event("PagesChange", "confirm", NoReq, NoReq))

\* Signup.handleSubmit up to the await: alert and return on a mismatch
PagesSubmit ==
  /\ route = "pages/Signup"
  /\ IF pages.data.password # pages.data.confirm
     THEN Step(Cur, Event("PagesSubmit", "rejected", NoReq, NoReq))
     ELSE LET r == Req("pagesSignup", "pages", Null,
                       [email |-> pages.data.email,
                        password |-> pages.data.password])
          IN Step([Cur EXCEPT !.net = Sent(net, r)],
                  Event("PagesSubmit", "sent", r, NoReq))

\* Signup.handleSubmit after the await: on success window.location.href = '/'
RespPagesSignup ==
  \E r \in BagToSet(net) :
    /\ r.kind = "pagesSignup"
    /\ \/ Become(PageLoad(stored, "/"),
                 Event("RespPagesSignup", "ok", r, NoReq))
       \/ Step([Cur EXCEPT !.net = Answered(net, r)],
               Event("RespPagesSignup", "fail", r, NoReq))

----------------------------------------------------------------------------
(* UserProfile *)

MsgAllRequired == "All fields are required"
MsgNewMismatch == "New password and confirm password do not match"
MsgPwRequired == "Password required"
MsgProfileLoaded == "Profile loaded"

OnProfile == route = "/dashboard" /\ activePage = "profile"

\* UserProfile.fetchProfile up to the await (the Refresh button,
\* disabled={loading}; the mount effect calls it too, see Settle)
Refresh ==
  /\ OnProfile
  /\ prof.mode = "view"
  /\ ~prof.loading
  /\ LET r == Req("fetchProfile", "profile", token, NoBody)
     IN Step([Cur EXCEPT !.prof.status = NoStatus, !.prof.loading = TRUE,
                         !.net = Sent(net, r)],
             Event("Refresh", "sent", r, NoReq))

\* UserProfile.fetchProfile after the await
RespFetchProfile ==
  \E r \in BagToSet(net) :
    /\ r.kind = "fetchProfile"
    /\ LET p == [Cur EXCEPT !.net = Answered(net, r)]
           u == UserOf(r.tok)
       IN \/ Step(IF r.orphan THEN [p EXCEPT !.user = u]
                    ELSE [p EXCEPT !.prof.profile =
                                      [email |-> u.email,
                                       first_name |-> u.first_name,
                                       last_name |-> u.last_name],
                                   !.user = u,
                                   !.prof.status = Success(MsgProfileLoaded),
                                   !.prof.loading = FALSE],
                    Event("RespFetchProfile", "ok", r, u))
          \/ \E f \in Failures :
               Step(IF r.orphan THEN p
                    ELSE [p EXCEPT !.prof.status = Danger(ErrMsg(f)),
                                   !.prof.loading = FALSE],
                    Event("RespFetchProfile", "fail", r, f))

\* openEditName with its button shown in every mode
openEditNameAnyMode ==
  /\ OnProfile
  /\ Step([Cur EXCEPT !.prof.status = NoStatus,
                      !.prof.nameForm =
                         [first_name |-> prof.profile.first_name,
                          last_name |-> prof.profile.last_name,
                          current_password |-> ""],
                      !.prof.mode = "editName"],
          Event("openEditName", "", NoReq, NoReq))

\* the Edit Profile button, shown in view mode
openEditName ==
  /\ OnProfile
  /\ prof.mode = "view"
  /\ Step([Cur EXCEPT !.prof.status = NoStatus,
                      !.prof.nameForm =
                         [first_name |-> prof.profile.first_name,
                          last_name |-> prof.profile.last_name,
                          current_password |-> ""],
                      !.prof.mode = "editName"],
          Event("openEditName", "", NoReq, NoReq))

openChangePassword ==
  /\ OnProfile
  /\ prof.mode = "view"
  /\ Step([Cur EXCEPT !.prof.status = NoStatus,
                      !.prof.passForm =
                         [old_password |-> "", new_password |-> <<>>,
                          confirm_password |-> <<>>],
                      !.prof.mode = "changePassword"],
          Event("openChangePassword", "", NoReq, NoReq))

\* the Delete Account button: onClick={() => setMode("deleteAccount")}
openDeleteAccount ==
  /\ OnProfile
  /\ prof.mode = "view"
  /\ Step([Cur EXCEPT !.prof.mode = "deleteAccount"],
          Event("openDeleteAccount", "", NoReq, NoReq))

cancelMode ==
  /\ OnProfile
  /\ prof.mode # "view"
  /\ Step([Cur EXCEPT !.prof.status = NoStatus, !.prof.mode = "view"],
          Event("cancelMode", "", NoReq, NoReq))

handleNameChange ==
  /\ OnProfile
  /\ prof.mode = "editName"
  /\ \/ \E v \in NameInputs \ {prof.nameForm.first_name} :
          Step([Cur EXCEPT !.prof.nameForm.first_name = v],
               Event("handleNameChange", "first_name", NoReq, NoReq))
     \/ \E v \in LastNameInputs \ {prof.nameForm.last_name} :
          Step([Cur EXCEPT !.prof.nameForm.last_name = v],
               Event("handleNameChange", "last_name", NoReq, NoReq))
     \/ \E v \in SecretInputs \ {prof.nameForm.current_password} :
          Step([Cur EXCEPT !.prof.nameForm.current_password = v],
               Event("handleNameChange", "current_password", NoReq, NoReq))

\* the pre-submit check of submitNameChange
nameCheck(f) ==
  IF f.first_name = "" \/ f.last_name = "" \/ f.current_password = ""
  THEN MsgAllRequired ELSE ""

\* The browser submits the name form: button disabled={loading}, all three
\* inputs required
nameSubmittable ==
  /\ ~prof.loading
  /\ prof.nameForm.first_name # ""
  /\ prof.nameForm.last_name # ""
  /\ prof.nameForm.current_password # ""

\* UserProfile.submitNameChange up to the await
submitNameChange ==
  /\ OnProfile
  /\ prof.mode = "editName"
  /\ nameSubmittable
  /\ IF nameCheck(prof.nameForm) # ""
     THEN Step([Cur EXCEPT !.prof.status = Danger(nameCheck(prof.nameForm))],
               Event("submitNameChange", "rejected", NoReq, NoReq))
     ELSE LET r == Req("putProfile", "profile", token, prof.nameForm)
          IN Step([Cur EXCEPT !.prof.status = NoStatus,
                              !.prof.loading = TRUE,
                              !.net = Sent(net, r)],
                  Event("submitNameChange", "sent", r, NoReq))

\* setUser((prev) => ({ ...prev, first_name, last_name }))
MergeName(u, b) ==
  IF u = NoUser
  THEN [first_name |-> b.first_name, last_name |-> b.last_name]
  ELSE [u EXCEPT !.first_name = b.first_name, !.last_name = b.last_name]

\* UserProfile.submitNameChange after the await
RespPutProfile ==
  \E r \in BagToSet(net) :
    /\ r.kind = "putProfile"
    /\ LET p == [Cur EXCEPT !.net = Answered(net, r)]
       IN \/ \E m \in ServerMsgs :
               Step(IF r.orphan
                    THEN [p EXCEPT !.user = MergeName(user, r.body)]
                    ELSE [p EXCEPT !.prof.status = Success(m),
                                   !.prof.profile.first_name = r.body.first_name,
                                   !.prof.profile.last_name = r.body.last_name,
                                   !.user = MergeName(user, r.body),
                                   !.prof.mode = "view",
                                   !.prof.loading = FALSE],
                    Event("RespPutProfile", "ok", r, [message |-> m]))
          \/ \E f \in Failures :
               Step(IF r.orphan THEN p
                    ELSE [p EXCEPT !.prof.status = Danger(ErrMsg(f)),
                                   !.prof.loading = FALSE],
                    Event("RespPutProfile", "fail", r, f))

handlePassChange ==
  /\ OnProfile
  /\ prof.mode = "changePassword"
  /\ \/ \E v \in SecretInputs \ {prof.passForm.old_password} :
          Step([Cur EXCEPT !.prof.passForm.old_password = v],
               Event("handlePassChange", "old_password", NoReq, NoReq))
     \/ \E v \in PwInputs \ {prof.passForm.new_password} :
          Step([Cur EXCEPT !.prof.passForm.new_password = v],
               Event("handlePassChange", "new_password", NoReq, NoReq))
     \/ \E v \in PwInputs \ {prof.passForm.confirm_password} :
          Step([Cur EXCEPT !.prof.passForm.confirm_password = v],
               Event("handlePassChange", "confirm_password", NoReq, NoReq))

\* passCheck without the comparison of new and confirm password
passCheckNoConfirm(f) ==
  IF validatePassword(f.new_password) # ""
  THEN validatePassword(f.new_password)
  ELSE ""

\* the pre-submit checks of submitPasswordChange
passCheck(f) ==
  IF validatePassword(f.new_password) # ""
  THEN validatePassword(f.new_password)
  ELSE IF f.new_password # f.confirm_password THEN MsgNewMismatch
  ELSE ""

\* The browser submits the password form: button disabled={loading}, the
\* three PasswordInputs required
passSubmittable ==
  /\ ~prof.loading
  /\ prof.passForm.old_password # ""
  /\ prof.passForm.new_password # <<>>
  /\ prof.passForm.confirm_password # <<>>

\* UserProfile.submitPasswordChange up to the await
submitPasswordChange ==
  /\ OnProfile
  /\ prof.mode = "changePassword"
  /\ passSubmittable
  /\ IF passCheck(prof.passForm) # ""
     THEN Step([Cur EXCEPT !.prof.status = Danger(passCheck(prof.passForm))],
               Event("submitPasswordChange", "rejected", NoReq, NoReq))
     ELSE LET r == Req("changePassword", "profile", token, prof.passForm)
          IN Step([Cur EXCEPT !.prof.status = NoStatus,
                              !.prof.loading = TRUE,
                              !.net = Sent(net, r)],
                  Event("submitPasswordChange", "sent", r, NoReq))

\* UserProfile.submitPasswordChange after the await
RespChangePassword ==
  \E r \in BagToSet(net) :
    /\ r.kind = "changePassword"
    /\ LET p == [Cur EXCEPT !.net = Answered(net, r)]
       IN \/ \E m \in ServerMsgs :
               Step(IF r.orphan THEN p
                    ELSE [p EXCEPT !.prof.status = Success(m),
                                   !.prof.passForm =
                                      [old_password |-> "",
                                       new_password |-> <<>>,
                                       confirm_password |-> <<>>],
                                   !.prof.mode = "view",
                                   !.prof.loading = FALSE],
                    Event("RespChangePassword", "ok", r, [message |-> m]))
          \/ \E f \in Failures :
               Step(IF r.orphan THEN p
                    ELSE [p EXCEPT !.prof.status = Danger(ErrMsg(f)),
                                   !.prof.loading = FALSE],
                    Event("RespChangePassword", "fail", r, f))

setDeletePassword ==
  /\ OnProfile
  /\ prof.mode = "deleteAccount"
  /\ \E v \in SecretInputs \ {prof.deletePassword} :
       Step([Cur EXCEPT !.prof.deletePassword = v],
            Event("setDeletePassword", "", NoReq, NoReq))

\* the pre-submit check of handleDeleteAccount
deleteCheck(pw) == IF pw = "" THEN MsgPwRequired ELSE ""

\* The browser submits the delete form: the password input is required;
\* the submit button is not disabled while loading
deleteSubmittable == prof.deletePassword # ""

\* UserProfile.handleDeleteAccount up to the await (it does not set loading)
handleDeleteAccount ==
  /\ OnProfile
  /\ prof.mode = "deleteAccount"
  /\ deleteSubmittable
  /\ IF deleteCheck(prof.deletePassword) # ""
     THEN Step([Cur EXCEPT !.prof.status = Danger(deleteCheck(prof.deletePassword))],
               Event("handleDeleteAccount", "rejected", NoReq, NoReq))
     ELSE LET r == Req("deleteAccount", "profile", token,
                       [password |-> prof.deletePassword])
          IN Step([Cur EXCEPT !.prof.status = NoStatus,
                              !.net = Sent(net, r)],
                  Event("handleDeleteAccount", "sent", r, NoReq))

\* UserProfile.handleDeleteAccount after the await
RespDeleteAccount ==
  \E r \in BagToSet(net) :
    /\ r.kind = "deleteAccount"
    /\ LET p == [Cur EXCEPT !.net = Answered(net, r)]
       IN \/ Step([handleLogout(p) EXCEPT !.route = "/login"],
                  Event("RespDeleteAccount", "ok", r, NoReq))
          \/ \E f \in Failures :
               Step(IF r.orphan THEN p
                    ELSE [p EXCEPT !.prof.status = Danger(ErrMsg(f))],
                    Event("RespDeleteAccount", "fail", r, f))

----------------------------------------------------------------------------
(* Notifications *)

OnNotifications == route = "/dashboard" /\ activePage = "notifications"

\* what GET /settings/notifications answers: the stored switches
NotifData ==
  { [email_notifications |-> TRUE, sms_notifications |-> FALSE,
     push_notifications |-> TRUE],
    [email_notifications |-> FALSE, sms_notifications |-> TRUE,
     push_notifications |-> FALSE] }

\* Notifications.loadSettings after the await (issued by the mount effect)
RespLoadSettings ==
  \E r \in BagToSet(net) :
    /\ r.kind = "loadSettings"
    /\ LET p == [Cur EXCEPT !.net = Answered(net, r)]
       IN \/ \E d \in NotifData :
               Step([p EXCEPT !.notif.form = d, !.notif.loading = FALSE],
                    Event("RespLoadSettings", "ok", r, d))
          \/ \E f \in Failures :
               Step([p EXCEPT !.notif.status = Danger(ErrMsg(f)),
                              !.notif.loading = FALSE],
                    Event("RespLoadSettings", "fail", r, f))

\* the three <Form.Check type="switch">
NotifChange ==
  /\ OnNotifications
  /\ \/ Step([Cur EXCEPT !.notif.form.email_notifications = ~@],
             Event("NotifChange", "email_notifications", NoReq, NoReq))
     \/ Step([Cur EXCEPT !.notif.form.sms_notifications = ~@],
             Event("NotifChange", "sms_notifications", NoReq, NoReq))
     \/ Step([Cur EXCEPT !.notif.form.push_notifications = ~@],
             Event("NotifChange", "push_notifications", NoReq, NoReq))

\* saveSettings without setLoading(true)
saveSettingsNoLoading ==
  /\ OnNotifications
  /\ ~notif.loading
  /\ LET r == Req("putSettings", "notifications", token, notif.form)
     IN Step([Cur EXCEPT !.notif.status = NoStatus,
                         !.net = Sent(net, r)],
             Event("saveSettings", "sent", r, NoReq))

\* Notifications.saveSettings up to the await (the button is
\* disabled={loading})
saveSettings ==
  /\ OnNotifications
  /\ ~notif.loading
  /\ LET r == Req("putSettings", "notifications", token, notif.form)
     IN Step([Cur EXCEPT !.notif.status = NoStatus,
                         !.notif.loading = TRUE,
                         !.net = Sent(net, r)],
             Event("saveSettings", "sent", r, NoReq))

\* Notifications.saveSettings after the await
RespSaveSettings ==
  \E r \in BagToSet(net) :
    /\ r.kind = "putSettings"
    /\ LET p == [Cur EXCEPT !.net = Answered(net, r)]
       IN \/ \E m \in ServerMsgs :
               Step([p EXCEPT !.notif.status = Success(m),
                              !.notif.loading = FALSE],
                    Event("RespSaveSettings", "ok", r, [message |-> m]))
          \/ \E f \in Failures :
               Step([p EXCEPT !.notif.status = Danger(ErrMsg(f)),
                              !.notif.loading = FALSE],
                    Event("RespSaveSettings", "fail", r, f))

----------------------------------------------------------------------------
(* Billing *)

MsgBadInvoice == "Invalid invoice email address"
MsgCardLen == "Card number must be 16 digits"
MsgHolderRequired == "Cardholder name is required"
MsgExpiryRequired == "Expiry month and year are required"
MsgMonthRange == "Expiry month must be between 1 and 12"
MsgYearPast == "Expiry year must be current year or later"
MsgCvvLen == "CVV must be 3 or 4 digits"

CurrentYear == 2026            \* new Date().getFullYear()

OnBilling == route = "/dashboard" /\ activePage = "billing"

\* what GET /settings/billing answers: nothing on file, or a card's last 4
NoCard == [cardholder_name |-> "", card_last4 |-> <<>>, invoice_email |-> <<>>]

OnFile ==
  [cardholder_name |-> "Ann Lee", card_last4 |-> <<"1", "1", "1", "1">>,
   invoice_email |-> GoodEmail]

BillingData == {NoCard, OnFile}

\* the last 4 shown without the mask
MaskBare(last4) == last4

\* data.card_last4 ? `**** **** **** ${data.card_last4}` : ""
Mask(last4) ==
  IF last4 = <<>> THEN <<>>
  ELSE <<"*", "*", "*", "*", " ", "*", "*", "*", "*", " ",
         "*", "*", "*", "*", " ">> \o last4

\* validateBilling without the 16-digit test of the card number
validateBillingNoCardLen(form) ==
  IF form.invoice_email # <<>> /\ ~emailRegexTest(form.invoice_email)
    THEN MsgBadInvoice
  ELSE IF \/ form.card_number # <<>>
          \/ form.expiry_month # <<>>
          \/ form.expiry_year # <<>>
          \/ form.cvv # <<>>
    THEN IF form.cardholder_name = "" THEN MsgHolderRequired
         ELSE IF form.expiry_month = <<>> \/ form.expiry_year = <<>>
           THEN MsgExpiryRequired
         ELSE IF \/ ParseInt(form.expiry_month) = NaN
                 \/ ParseInt(form.expiry_month) < 1
                 \/ ParseInt(form.expiry_month) > 12
           THEN MsgMonthRange
         ELSE IF \/ ParseInt(form.expiry_year) = NaN
                 \/ ParseInt(form.expiry_year) < CurrentYear
           THEN MsgYearPast
         ELSE IF \/ Len(StripNonDigits(form.cvv)) < 3
                 \/ Len(StripNonDigits(form.cvv)) > 4
           THEN MsgCvvLen
         ELSE ""
  ELSE ""

\* Billing.validateBilling: the message of the first check that fails
validateBilling(form) ==
  IF form.invoice_email # <<>> /\ ~emailRegexTest(form.invoice_email)
    THEN MsgBadInvoice
  ELSE IF form.card_number # <<>> /\ Len(StripNonDigits(form.card_number)) # 16
    THEN MsgCardLen
  ELSE IF \/ form.card_number # <<>>
          \/ form.expiry_month # <<>>
          \/ form.expiry_year # <<>>
          \/ form.cvv # <<>>
    THEN IF form.cardholder_name = "" THEN MsgHolderRequired
         ELSE IF form.expiry_month = <<>> \/ form.expiry_year = <<>>
           THEN MsgExpiryRequired
         ELSE IF \/ ParseInt(form.expiry_month) = NaN
                 \/ ParseInt(form.expiry_month) < 1
                 \/ ParseInt(form.expiry_month) > 12
           THEN MsgMonthRange
         ELSE IF \/ ParseInt(form.expiry_year) = NaN
                 \/ ParseInt(form.expiry_year) < CurrentYear
           THEN MsgYearPast
         ELSE IF \/ Len(StripNonDigits(form.cvv)) < 3
                 \/ Len(StripNonDigits(form.cvv)) > 4
           THEN MsgCvvLen
         ELSE ""
  ELSE ""

\* Billing.loadBilling, try and finally: the form as the response fills it
loadBillingOk(b, d) ==
  [b EXCEPT !.form = [@ EXCEPT !.cardholder_name = d.cardholder_name,
                               !.card_number = Mask(d.card_last4),
                               !.expiry_month = <<>>,
                               !.expiry_year = <<>>,
                               !.cvv = <<>>,
                               !.invoice_email = d.invoice_email],
            !.hasPaymentMethod = (d.card_last4 # <<>>),
            !.loading = FALSE]

\* Billing.loadBilling after the await (issued by the mount effect, or by
\* saveBilling, whose finally then runs too)
RespLoadBilling ==
  \E r \in BagToSet(net) :
    /\ r.kind = "loadBilling"
    /\ LET p == [Cur EXCEPT !.net = Answered(net, r)]
       IN \/ \E d \in BillingData :
               Step([p EXCEPT !.bill = loadBillingOk(@, d)],
                    Event("RespLoadBilling", "ok", r, d))
          \/ \E f \in Failures :
               Step([p EXCEPT !.bill.status = Danger(ErrMsg(f)),
                              !.bill.loading = FALSE],
                    Event("RespLoadBilling", "fail", r, f))

\* Billing.saveBilling up to the await (the button is disabled={loading})
saveBilling ==
  /\ OnBilling
  /\ ~bill.loading
  /\ IF validateBilling(bill.form) # ""
     THEN Step([Cur EXCEPT !.bill.status = Danger(validateBilling(bill.form))],
               Event("saveBilling", "rejected", NoReq, NoReq))
     ELSE LET r == Req("putBilling", "billing", token,
                       [cardholder_name |-> bill.form.cardholder_name,
                        card_number |-> StripNonDigits(bill.form.card_number),
                        expiry_month |-> bill.form.expiry_month,
                        expiry_year |-> bill.form.expiry_year,
                        cvv |-> bill.form.cvv,
                        invoice_email |-> bill.form.invoice_email])
          IN Step([Cur EXCEPT !.bill.status = NoStatus,
                              !.bill.loading = TRUE,
                              !.net = Sent(net, r)],
                  Event("saveBilling", "sent", r, NoReq))

\* saveBilling after the await with loadBilling() called after the
\* try / catch, whatever the PUT's outcome
RespPutBillingAlwaysReloads ==
  \E r \in BagToSet(net) :
    /\ r.kind = "putBilling"
    /\ LET p == [Cur EXCEPT !.net = Answered(net, r)]
           g == Req("loadBilling", "billing", token, [viaSave |-> TRUE])
       IN \/ \E m \in ServerMsgs :
               Step([p EXCEPT !.bill.status = NoStatus,
                              !.bill.loading = TRUE,
                              !.net = Sent(@, g)],
                    Event("RespPutBilling", "ok", r, [message |-> m]))
          \/ \E f \in Failures :
               Step([p EXCEPT !.bill.status = NoStatus,
                              !.bill.loading = TRUE,
                              !.net = Sent(@, g)],
                    Event("RespPutBilling", "fail", r, f))

\* saveBilling after the await with a catch that also blanks the form
RespPutBillingFailBlanks ==
  \E r \in BagToSet(net) :
    /\ r.kind = "putBilling"
    /\ LET p == [Cur EXCEPT !.net = Answered(net, r)]
           g == Req("loadBilling", "billing", token, [viaSave |-> TRUE])
       IN \/ \E m \in ServerMsgs :
               Step([p EXCEPT !.bill.status = NoStatus,
                              !.bill.loading = TRUE,
                              !.net = Sent(@, g)],
                    Event("RespPutBilling", "ok", r, [message |-> m]))
          \/ \E f \in Failures :
               Step([p EXCEPT !.bill.status = Danger(ErrMsg(f)),
                              !.bill.form = BillInit.form,
                              !.bill.loading = FALSE],
                    Event("RespPutBilling", "fail", r, f))

\* Billing.saveBilling after the await of the PUT: on success the status is
\* set and loadBilling() runs up to its own await (status null, loading
\* true, GET issued); on failure catch and finally
RespPutBilling ==
  \E r \in BagToSet(net) :
    /\ r.kind = "putBilling"
    /\ LET p == [Cur EXCEPT !.net = Answered(net, r)]
           g == Req("loadBilling", "billing", token, [viaSave |-> TRUE])
       IN \/ \E m \in ServerMsgs :
               Step([p EXCEPT !.bill.status = NoStatus,
                              !.bill.loading = TRUE,
                              !.net = Sent(@, g)],
                    Event("RespPutBilling", "ok", r, [message |-> m]))
          \/ \E f \in Failures :
               Step([p EXCEPT !.bill.status = Danger(ErrMsg(f)),
                              !.bill.loading = FALSE],
                    Event("RespPutBilling", "fail", r, f))

----------------------------------------------------------------------------
(* Plans *)

MsgNeedBilling ==
  "Please add a billing method in Billing & Invoices before selecting a paid plan."

OnPlans == route = "/dashboard" /\ activePage = "plans"

PlanOptions == {"basic", "pro", "enterprise"}      \* the <option>s

\* what GET /settings/plans answers (a field the body lacks reads as "" or
\* false); the server is free to name a plan the client has no price for
PlansData ==
  { [plan |-> "", extra_storage |-> FALSE, priority_support |-> FALSE],
    [plan |-> "pro", extra_storage |-> TRUE, priority_support |-> FALSE],
    [plan |-> "gold", extra_storage |-> FALSE, priority_support |-> TRUE] }

\* PLAN_PRICING[form.plan] || 0
basePrice(plan) ==
  IF plan \in DOMAIN PLAN_PRICING THEN PLAN_PRICING[plan] ELSE 0

\* savePlans: total without the add-ons
totalNoAddons(form) == basePrice(form.plan)

\* savePlans: total = basePrice + addons
total(form) ==
  basePrice(form.plan)
    + (IF form.extra_storage THEN ADDON_PRICING.extra_storage ELSE 0)
    + (IF form.priority_support THEN ADDON_PRICING.priority_support ELSE 0)

\* plansCheck that ignores the payment-method flag
plansCheckNoGate(form, has) == ""

\* the pre-submit check of savePlans
plansCheck(form, has) ==
  IF total(form) > 0 /\ ~has THEN MsgNeedBilling ELSE ""

\* Plans.loadPlans after the await of both GETs (Promise.all: one
\* continuation; it fails when either request fails)
RespLoadPlans ==
  \E r \in BagToSet(net) :
    /\ r.kind = "loadPlans"
    /\ LET p == [Cur EXCEPT !.net = Answered(net, r)]
       IN \/ \E pd \in PlansData : \E bd \in BillingData :
               Step([p EXCEPT !.plans.form =
                                 [plan |-> IF pd.plan = "" THEN "basic"
                                           ELSE pd.plan,
                                  extra_storage |-> pd.extra_storage,
                                  priority_support |-> pd.priority_support],
                              !.plans.hasPaymentMethod = (bd.card_last4 # <<>>),
                              !.plans.loading = FALSE],
                    Event("RespLoadPlans", "ok", r, [plans |-> pd, billing |-> bd]))
          \/ \E f \in Failures :
               Step([p EXCEPT !.plans.status = Danger(ErrMsg(f)),
                              !.plans.loading = FALSE],
                    Event("RespLoadPlans", "fail", r, f))

\* the plan <Form.Select> and the two add-on checkboxes
PlansChange ==
  /\ OnPlans
  /\ \/ \E v \in PlanOptions \ {plans.form.plan} :
          Step([Cur EXCEPT !.plans.form.plan = v],
               Event("PlansChange", "plan", NoReq, NoReq))
     \/ Step([Cur EXCEPT !.plans.form.extra_storage = ~@],
             Event("PlansChange", "extra_storage", NoReq, NoReq))
     \/ Step([Cur EXCEPT !.plans.form.priority_support = ~@],
             Event("PlansChange", "priority_support", NoReq, NoReq))

\* Plans.savePlans up to the await (the button is disabled={loading})
savePlans ==
  /\ OnPlans
  /\ ~plans.loading
  /\ IF plansCheck(plans.form, plans.hasPaymentMethod) # ""
     THEN Step([Cur EXCEPT !.plans.status =
                   Danger(plansCheck(plans.form, plans.hasPaymentMethod))],
               Event("savePlans", "rejected", NoReq, NoReq))
     ELSE LET r == Req("putPlans", "plans", token,
                       [plan |-> plans.form.plan,
                        extra_storage |-> plans.form.extra_storage,
                        priority_support |-> plans.form.priority_support,
                        total_price |-> total(plans.form),
                        currency |-> "INR"])
          IN Step([Cur EXCEPT !.plans.status = NoStatus,
                              !.plans.loading = TRUE,
                              !.net = Sent(net, r)],
                  Event("savePlans", "sent", r, NoReq))

\* Plans.savePlans after the await
RespPutPlans ==
  \E r \in BagToSet(net) :
    /\ r.kind = "putPlans"
    /\ LET p == [Cur EXCEPT !.net = Answered(net, r)]
       IN \/ \E m \in ServerMsgs :
               Step([p EXCEPT !.plans.status = Success(m),
                              !.plans.loading = FALSE],
                    Event("RespPutPlans", "ok", r, [message |-> m]))
          \/ \E f \in Failures :
               Step([p EXCEPT !.plans.status = Danger(ErrMsg(f)),
                              !.plans.loading = FALSE],
                    Event("RespPutPlans", "fail", r, f))

----------------------------------------------------------------------------
(* The dismissible <Alert> of each screen: onClose={() => setStatus(null)} *)

DismissStatus ==
  \/ /\ route = "/login" /\ login.status # NoStatus
     /\ Step([Cur EXCEPT !.login.status = NoStatus],
             Event("DismissStatus", "login", NoReq, NoReq))
  \/ /\ route = "/signup" /\ signup.status # NoStatus
     /\ Step([Cur EXCEPT !.signup.status = NoStatus],
             Event("DismissStatus", "signup", NoReq, NoReq))
  \/ /\ OnProfile /\ prof.status # NoStatus
     /\ Step([Cur EXCEPT !.prof.status = NoStatus],
             Event("DismissStatus", "profile", NoReq, NoReq))
  \/ /\ OnNotifications /\ notif.status # NoStatus
     /\ Step([Cur EXCEPT !.notif.status = NoStatus],
             Event("DismissStatus", "notifications", NoReq, NoReq))
  \/ /\ OnBilling /\ bill.status # NoStatus
     /\ Step([Cur EXCEPT !.bill.status = NoStatus],
             Event("DismissStatus", "billing", NoReq, NoReq))
  \/ /\ OnPlans /\ plans.status # NoStatus
     /\ Step([Cur EXCEPT !.plans.status = NoStatus],
             Event("DismissStatus", "plans", NoReq, NoReq))

----------------------------------------------------------------------------
(* What the user may have typed into a form before submitting it *)

\* a card number of d digits in groups of four, the first s groups
\* followed by a "-"
RECURSIVE CardFrom(_, _, _)
CardFrom(i, d, s) ==
  IF i > d THEN <<>>
  ELSE <<IF i = 1 THEN "4" ELSE "1">>
         \o (IF i % 4 = 0 /\ i \div 4 <= s THEN <<"-">> ELSE <<>>)
         \o CardFrom(i + 1, d, s)

DashedCard == CardFrom(1, 16, 3)          \* 4111-1111-1111-1111

\* typed card numbers, and the masked string a load leaves in the field
CardInputs ==
  { CardFrom(1, d, s) : d \in 0..MaxDigits, s \in 0..MaxSeps }
    \cup {Mask(OnFile.card_last4)}

MonthInputs == {<<>>, <<"0">>, <<"1", "2">>, <<"1", "3">>}
YearInputs == {<<>>, <<"2", "0", "2", "5">>, <<"2", "0", "2", "6">>}
CvvInputs == {<<>>, <<"1", "2">>, <<"1", "2", "3">>, <<"1", "2", "3", "4", "5">>}
HolderInputs == {"", "Ann Lee"}
InvoiceInputs == {<<>>, GoodEmail, BadEmail}

NotAnEmail ==
  <<"n", "o", "t", "-", "a", "n", "-", "e", "m", "a", "i", "l">>

EmailAlphabet == {"a", "@", ".", " "}

\* the strings of at most n characters over EmailAlphabet
RECURSIVE EmailStrings(_)
EmailStrings(n) ==
  IF n = 0 THEN {<<>>}
  ELSE LET S == EmailStrings(n - 1)
       IN S \cup { Append(s, c) : s \in {t \in S : Len(t) = n - 1},
                                  c \in EmailAlphabet }

\* what the value of <Form.Control type="email" name="invoice_email"> can
\* be: the browser strips leading and trailing whitespace from what is typed
EmailDrawn ==
  { s \in EmailStrings(MaxEmailLen) :
      s # <<>> => s[1] \notin Whitespace /\ s[Len(s)] \notin Whitespace }
    \cup {BadEmail, NotAnEmail}

\* every card number with the other card fields all blank or all filled in
\* well, and a few card numbers with every mix of the other card fields
BillingForms ==
  { [cardholder_name |-> r[1], card_number |-> c, expiry_month |-> r[2],
     expiry_year |-> r[3], cvv |-> r[4], invoice_email |-> e] :
      c \in CardInputs,
      r \in { <<"", <<>>, <<>>, <<>>>>,
              <<"Ann Lee", <<"1", "2">>, <<"2", "0", "2", "6">>,
                <<"1", "2", "3">>>> },
      e \in InvoiceInputs }
  \cup
  { [cardholder_name |-> h, card_number |-> c, expiry_month |-> m,
     expiry_year |-> y, cvv |-> v, invoice_email |-> <<>>] :
      h \in HolderInputs, c \in {<<>>, DashedCard}, m \in MonthInputs,
      y \in YearInputs, v \in CvvInputs }

\* a password of n characters, lower-case but for an upper-case letter at
\* position u and a digit at position d (0: none)
PwOf(n, u, d) ==
  [i \in 1..n |-> IF i = u THEN "A" ELSE IF i = d THEN "1" ELSE "a"]

PwDrawn == { PwOf(n, u, d) : n \in 0..MaxPwLen, u \in 0..MaxPwLen,
                             d \in 0..MaxPwLen }

\* The dashboard once loadMe has answered
Loaded ==
  LET st == PageLoad("T1", "/dashboard")
  IN Settle(OldOf(st), [st EXCEPT !.user = UserOf("T1"), !.net = EmptyBag])

\* Sidebar: setActivePage(pg) in state st
Visit(st, pg) == Settle(OldOf(st), [st EXCEPT !.activePage = pg])

\* the Profile screen, its fetch pending (opened before loadMe answered)
\* or not needed
ProfileOpen == {Visit(PageLoad("T1", "/dashboard"), "profile"),
                Visit(Loaded, "profile")}

\* the Billing screen once its load has answered d
BillingOpen(d) ==
  LET st == Visit(Loaded, "billing")
  IN [st EXCEPT !.net = EmptyBag, !.bill = loadBillingOk(@, d)]

\* the Plans screen once its load has answered
PlansOpen(has) ==
  LET st == Visit(Loaded, "plans")
  IN [st EXCEPT !.net = EmptyBag, !.plans.loading = FALSE,
                !.plans.hasPaymentMethod = has]

\* A screen with its form filled in, ready for the submit
LoginFilled ==
  { [PageLoad(Null, "/login") EXCEPT !.login.form = [email |-> e, password |-> p]] :
      e \in EmailInputs \cup {<<>>}, p \in SecretInputs }

SignupFilled ==
  { [PageLoad(Null, "/signup") EXCEPT
       !.signup.form = [email |-> e, first_name |-> f, last_name |-> l,
                        password |-> pc[1], confirm_password |-> pc[2]]] :
      e \in EmailInputs, f \in NameInputs, l \in LastNameInputs,
      pc \in (PwInputs \X PwInputs) \cup { <<x, x>> : x \in PwDrawn } }

NameFilled ==
  { [st EXCEPT !.prof.mode = "editName",
               !.prof.nameForm = [first_name |-> f, last_name |-> l,
                                  current_password |-> p]] :
      st \in ProfileOpen, f \in NameInputs, l \in LastNameInputs,
      p \in SecretInputs }

PassFilled ==
  { [st EXCEPT !.prof.mode = "changePassword",
               !.prof.passForm = [old_password |-> o, new_password |-> pc[1],
                                  confirm_password |-> pc[2]]] :
      st \in ProfileOpen, o \in SecretInputs,
      pc \in (PwInputs \X PwInputs) \cup { <<x, x>> : x \in PwDrawn } }

DeleteFilled ==
  { [st EXCEPT !.prof.mode = "deleteAccount", !.prof.deletePassword = p] :
      st \in ProfileOpen, p \in SecretInputs }

BillingFilled ==
  { [BillingOpen(d) EXCEPT !.bill.form = f] :
      d \in BillingData, f \in BillingForms }
    \cup {Visit(Loaded, "billing")}

\* the billing screen with nothing but an invoice e-mail typed in
EmailFilled ==
  { [BillingOpen(NoCard) EXCEPT !.bill.form.invoice_email = e] :
      e \in EmailDrawn }

\* the Notifications screen, its load pending or answered, and the
\* switches as the user set them
NotifFilled ==
  { [Visit(Loaded, "notifications") EXCEPT
       !.net = EmptyBag, !.notif.loading = FALSE, !.notif.form = d] :
      d \in [email_notifications : BOOLEAN, sms_notifications : BOOLEAN,
             push_notifications : BOOLEAN] }
    \cup {Visit(Loaded, "notifications")}

PlansFilled ==
  { [PlansOpen(has) EXCEPT !.plans.form = [plan |-> pl, extra_storage |-> x,
                                           priority_support |-> y]] :
      has \in BOOLEAN, pl \in PlanOptions \cup {"gold"}, x \in BOOLEAN,
      y \in BOOLEAN }
    \cup {Visit(Loaded, "plans")}

----------------------------------------------------------------------------
(* Specifications: page loads, and the handlers of one area each *)

Init == Start({Null} \cup Tokens, Paths)

\* the login page, with or without a token left in localStorage
InitLogin == Start({Null, "T1"}, {"/login"})

\* the signup page of App and the standalone one
InitSignup == Start({Null}, {"/signup", "pages/Signup"})

\* a returning user opens the dashboard with a token in localStorage
InitDashboard == Start({"T1"}, {"/dashboard"})

\* a screen is open and its form is filled in
\* the Profile screen is open, in view mode or with one of its forms
\* filled in
InitMode ==
  StartIn(ProfileOpen \cup NameFilled \cup PassFilled \cup DeleteFilled)

\* the app starts at the root, the login page or the dashboard, with or
\* without a token left in localStorage
InitRefresh == Start({Null, "T1"}, {"/", "/login", "/dashboard"})

\* the billing screen is open and an invoice e-mail is typed in
InitEmail == StartIn(EmailFilled)

InitForms ==
  StartIn(LoginFilled \cup SignupFilled \cup NameFilled \cup PassFilled
            \cup DeleteFilled \cup BillingFilled \cup PlansFilled)

NextLogin ==
  \/ LoginChange
  \/ LoginSubmit
  \/ RespLogin
  \/ RespLoadMe
  \/ ClickLink
  \/ Logout

NextSignup ==
  \/ SignupChange
  \/ SignupSubmit
  \/ RespSignup
  \/ PagesChange
  \/ PagesSubmit
  \/ RespPagesSignup

\* the session on the dashboard: both fetches of /auth/me
NextSession ==
  \/ Logout
  \/ RespLoadMe
  \/ GoOverview
  \/ GoProfile
  \/ Refresh
  \/ RespFetchProfile

\* the Profile screen's account deletion
NextDelete ==
  \/ Logout
  \/ RespLoadMe
  \/ GoOverview
  \/ GoProfile
  \/ RespFetchProfile
  \/ openDeleteAccount
  \/ cancelMode
  \/ setDeletePassword
  \/ handleDeleteAccount
  \/ RespDeleteAccount

\* the whole Profile screen
NextProfile ==
  \/ Logout
  \/ RespLoadMe
  \/ GoOverview
  \/ GoProfile
  \/ Refresh
  \/ RespFetchProfile
  \/ openEditName
  \/ openChangePassword
  \/ openDeleteAccount
  \/ cancelMode
  \/ handleNameChange
  \/ submitNameChange
  \/ RespPutProfile
  \/ handlePassChange
  \/ submitPasswordChange
  \/ RespChangePassword
  \/ setDeletePassword
  \/ handleDeleteAccount
  \/ RespDeleteAccount

\* the Profile screen: its mode buttons, submits and responses, leaving
\* and coming back
NextMode ==
  \/ Logout
  \/ RespLoadMe
  \/ GoOverview
  \/ GoProfile
  \/ Refresh
  \/ RespFetchProfile
  \/ openEditName
  \/ openChangePassword
  \/ openDeleteAccount
  \/ cancelMode
  \/ submitNameChange
  \/ RespPutProfile
  \/ submitPasswordChange
  \/ RespChangePassword
  \/ setDeletePassword
  \/ handleDeleteAccount
  \/ RespDeleteAccount

\* the session from app start: URLs, login, Logout, the Profile's fetch
NextRefresh ==
  \/ OpenUrl
  \/ NextLogin
  \/ NextSession

\* the Plans screen
NextPlans ==
  \/ Logout
  \/ RespLoadMe
  \/ GoOverview
  \/ GoPlans
  \/ RespLoadPlans
  \/ PlansChange
  \/ savePlans
  \/ RespPutPlans

\* any page is loaded, or a screen is open and its form is filled in
InitApp ==
  \/ Start({Null, "T1"}, Paths)
  \/ InitForms
  \/ StartIn(NotifFilled)

\* Save Billing and the continuations of its requests
NextEmail ==
  \/ saveBilling
  \/ RespPutBilling
  \/ RespLoadBilling

\* every submit handler and the continuations of the requests in flight
NextForms ==
  \/ LoginSubmit
  \/ RespLogin
  \/ SignupSubmit
  \/ RespSignup
  \/ RespLoadMe
  \/ RespFetchProfile
  \/ submitNameChange
  \/ RespPutProfile
  \/ submitPasswordChange
  \/ RespChangePassword
  \/ handleDeleteAccount
  \/ RespDeleteAccount
  \/ saveBilling
  \/ RespPutBilling
  \/ RespLoadBilling
  \/ savePlans
  \/ RespPutPlans
  \/ RespLoadPlans

\* the session and every form: links, URLs, Logout, alerts, submits and
\* the continuations of the requests in flight
NextApp ==
  \/ OpenUrl
  \/ ClickLink
  \/ Logout
  \/ DismissStatus
  \/ NotifChange
  \/ saveSettings
  \/ RespSaveSettings
  \/ RespLoadSettings
  \/ NextForms

SpecLogin == InitLogin /\ [][NextLogin]_vars

SpecSignup == InitSignup /\ [][NextSignup]_vars

SpecSession == InitDashboard /\ [][NextSession]_vars

SpecDelete == InitDashboard /\ [][NextDelete]_vars

SpecProfile == InitDashboard /\ [][NextProfile]_vars

SpecPlans == InitDashboard /\ [][NextPlans]_vars

SpecForms == InitForms /\ [][NextForms]_vars

SpecEmail == InitEmail /\ [][NextEmail]_vars

SpecApp == InitApp /\ [][NextApp]_vars

SpecMode == InitMode /\ [][NextMode]_vars

\* every GET /auth/me that App issued is answered in the end
SpecRefresh == InitRefresh /\ [][NextRefresh]_vars /\ WF_vars(RespLoadMe)

----------------------------------------------------------------------------
(* Claims *)

\* how many requests of kind k are in flight in n
KindCount(n, k) ==
  BagCardinality([r \in {x \in BagToSet(n) : x.kind = k} |-> CopiesIn(r, n)])

\* this step issues a request of kind k
Issues(k) == KindCount(net', k) > KindCount(net, k)

\* the requests this step issues
NewReqs == { r \in BagToSet(net') : CopiesIn(r, net') > CopiesIn(r, net) }

IsDigit(c) == c \in Digits

\* the digit characters of s, in order
DigitsOf(s) == SelectSeq(s, IsDigit)

\* the price list: base(plan) + addons
ListPrice(f) ==
  (CASE f.plan = "basic" -> 0
     [] f.plan = "pro" -> 499
     [] f.plan = "enterprise" -> 1499
     [] OTHER -> 0)
  + (IF f.extra_storage THEN 199 ELSE 0)
  + (IF f.priority_support THEN 299 ELSE 0)

\* the password rule, first failing message
PwShort(s) == Len(s) < 8
PwNoUpper(s) == \A i \in 1..Len(s) : s[i] \notin Upper
PwNoDigit(s) == \A i \in 1..Len(s) : s[i] \notin Digits

\* C1: for every submit with a pre-submit check (Login, Signup, name edit,
\* password change, account delete, billing save, plans save), when the
\* check fails on the form as submitted, the step issues no request, the
\* form's status becomes a danger status and its loading flag is false
C1_FailedCheckSendsNothing ==
  [][ /\ (/\ last'.op = "LoginSubmit"
          /\ ~emailRegexTest(login.form.email)) =>
           net' = net /\ login'.status.type = "danger" /\ ~login'.loading
      /\ (/\ last'.op = "SignupSubmit"
          /\ \/ ~emailRegexTest(signup.form.email)
             \/ validatePassword(signup.form.password) # ""
             \/ signup.form.password # signup.form.confirm_password) =>
           net' = net /\ signup'.status.type = "danger" /\ ~signup'.loading
      /\ (/\ last'.op = "submitNameChange"
          /\ \/ prof.nameForm.first_name = ""
             \/ prof.nameForm.last_name = ""
             \/ prof.nameForm.current_password = "") =>
           net' = net /\ prof'.status.type = "danger" /\ ~prof'.loading
      /\ (/\ last'.op = "submitPasswordChange"
          /\ \/ validatePassword(prof.passForm.new_password) # ""
             \/ prof.passForm.new_password # prof.passForm.confirm_password) =>
           net' = net /\ prof'.status.type = "danger" /\ ~prof'.loading
      /\ (/\ last'.op = "handleDeleteAccount"
          /\ prof.deletePassword = "") =>
           net' = net /\ prof'.status.type = "danger" /\ ~prof'.loading
      /\ (/\ last'.op = "saveBilling"
          /\ validateBilling(bill.form) # "") =>
           net' = net /\ bill'.status.type = "danger" /\ ~bill'.loading
      /\ (/\ last'.op = "savePlans"
          /\ ListPrice(plans.form) > 0
          /\ ~plans.hasPaymentMethod) =>
           net' = net /\ plans'.status.type = "danger" /\ ~plans'.loading
    ]_vars

\* a login submitted with an email the browser lets through and the
\* format check turns down
C1_Witness ==
  /\ last.op = "LoginSubmit"
  /\ last.out = "rejected"
  /\ login.form.email = BadEmail
  /\ login.status = Danger(MsgBadEmail)
  /\ ~login.loading
  /\ net = EmptyBag

\* C2: a POST to the signup endpoint is sent only from a state where the
\* password field equals the confirm field, in SignupPage and in the
\* standalone Signup component alike
C2_SignupSentOnlyWhenConfirmed ==
  [][ /\ Issues("signup") =>
           signup.form.password = signup.form.confirm_password
      /\ Issues("pagesSignup") =>
           pages.data.password = pages.data.confirm ]_vars

\* a signup was submitted with two different non-empty passwords and was
\* turned down by the comparison
C2_Witness ==
  /\ last.op = "SignupSubmit"
  /\ last.out = "rejected"
  /\ signup.status = Danger(MsgMismatch)
  /\ signup.form.password # signup.form.confirm_password
  /\ net = EmptyBag

\* C3: right after a login response carrying a token is handled, the
\* in-memory token and the persisted token equal the returned token, user
\* is the returned user and the route is /dashboard
C3_LoginStoresSession ==
  (last.op = "RespLogin" /\ last.out = "token") =>
    /\ token = last.res.token
    /\ stored = last.res.token
    /\ user = last.res.user
    /\ route = "/dashboard"

\* a login answered with token T2 and its user, over a T1 left in storage
C3_Witness ==
  /\ last.op = "RespLogin"
  /\ last.out = "token"
  /\ last.res.token = "T2"
  /\ user = UserOf("T2")
  /\ stored = "T2"

\* C4: after any failed GET /auth/me, the app-level loadMe and the Profile
\* screen's fetchProfile alike, token and user are null, the persisted
\* token is removed and /dashboard redirects to /login
C4_FetchFailureClearsSession ==
  (last.op \in {"RespLoadMe", "RespFetchProfile"} /\ last.out = "fail") =>
    /\ token = Null
    /\ user = NoUser
    /\ stored = Null
    /\ Resolve("/dashboard", token) = "/login"

\* C5: a successful DELETE /auth/delete-account response leaves token and
\* user null, the persisted token removed and the route /login; a failed
\* response and the submit itself leave the session as it was, and a
\* submit with an empty password issues no request
C5_DeleteClearsSessionOnSuccessOnly ==
  [][ /\ (last'.op = "RespDeleteAccount" /\ last'.out = "ok") =>
           /\ token' = Null
           /\ user' = NoUser
           /\ stored' = Null
           /\ route' = "/login"
      /\ (last'.op = "RespDeleteAccount" /\ last'.out = "fail") =>
           token' = token /\ user' = user /\ stored' = stored
      /\ last'.op = "handleDeleteAccount" =>
           /\ token' = token /\ user' = user /\ stored' = stored
           /\ prof.deletePassword = "" => net' = net
    ]_vars

\* the account was deleted while a session with a loaded user was open
C5_Witness ==
  /\ last.op = "RespDeleteAccount"
  /\ last.out = "ok"
  /\ token = Null
  /\ user = NoUser
  /\ stored = Null
  /\ route = "/login"

\* C6: every PUT /settings/plans with total_price > 0 is issued from a
\* state where hasPaymentMethod is true; with the flag false and a total
\* above 0, savePlans sets an error status and issues no request
C6_PaidPlanNeedsPaymentMethod ==
  [][ /\ \A r \in NewReqs :
           (r.kind = "putPlans" /\ r.body.total_price > 0) =>
             plans.hasPaymentMethod
      /\ (/\ last'.op = "savePlans"
          /\ ~plans.hasPaymentMethod
          /\ ListPrice(plans.form) > 0) =>
           /\ net' = net
           /\ plans'.status.type = "danger"
    ]_vars

\* pro + extra_storage (698) submitted with no payment method on file
C6_Witness ==
  /\ last.op = "savePlans"
  /\ last.out = "rejected"
  /\ plans.form = [plan |-> "pro", extra_storage |-> TRUE,
                   priority_support |-> FALSE]
  /\ ~plans.hasPaymentMethod
  /\ plans.status = Danger(MsgNeedBilling)
  /\ \A r \in BagToSet(net) : r.kind # "putPlans"

\* C7: the total_price of every PUT /settings/plans for one of the plans
\* basic, pro, enterprise is base(plan) + addons of the plan and add-ons
\* sent in the same request (0 / 499 / 1499, + 199, + 299)
C7_TotalIsBasePlusAddons ==
  \A r \in BagToSet(net) :
    (r.kind = "putPlans" /\ r.body.plan \in {"basic", "pro", "enterprise"}) =>
      r.body.total_price = ListPrice(r.body)

\* pro + extra_storage in flight with a total of 698
C7_Witness ==
  \E r \in BagToSet(net) :
    /\ r.kind = "putPlans"
    /\ r.body.plan = "pro"
    /\ r.body.extra_storage
    /\ ~r.body.priority_support
    /\ r.body.total_price = 698

\* C8: saveBilling with a non-empty card_number issues its PUT only if
\* exactly 16 digits remain once every non-digit is stripped, a card number
\* with another count of digits is rejected (with the card-length error
\* when the invoice email passes), 16 digits never meet the card-length
\* error, and the body carries the stripped digits only
C8_CardNumberSixteenDigits ==
  [][ last'.op = "saveBilling" =>
        LET card == bill.form.card_number
            mail == bill.form.invoice_email
            puts == { r \in NewReqs : r.kind = "putBilling" }
        IN /\ (last'.out = "sent") <=> (puts # {})
           /\ \A r \in puts :
                /\ r.body.card_number = DigitsOf(card)
                /\ card # <<>> => Len(DigitsOf(card)) = 16
           /\ (card # <<>> /\ Len(DigitsOf(card)) # 16) =>
                /\ puts = {}
                /\ bill'.status.type = "danger"
                /\ (mail = <<>> \/ emailRegexTest(mail)) =>
                     bill'.status = Danger(MsgCardLen)
           /\ Len(DigitsOf(card)) = 16 => bill'.status # Danger(MsgCardLen)
    ]_vars

\* 4111-1111-1111-1111 was saved and its 16 digits are on the way
C8_Witness ==
  /\ last.op = "saveBilling"
  /\ last.out = "sent"
  /\ bill.form.card_number = DashedCard
  /\ \E r \in BagToSet(net) :
       r.kind = "putBilling" /\ r.body.card_number = CardFrom(1, 16, 0)

\* C9: a PUT /settings/billing carrying any of card_number, expiry_month,
\* expiry_year or cvv carries all four, a cardholder_name, an expiry_month
\* in 1..12 and an expiry_year of at least the current year
C9_CardFieldsAllOrNothing ==
  [][ \A r \in NewReqs :
        (/\ r.kind = "putBilling"
         /\ \/ r.body.card_number # <<>>
            \/ r.body.expiry_month # <<>>
            \/ r.body.expiry_year # <<>>
            \/ r.body.cvv # <<>>) =>
          /\ r.body.card_number # <<>>
          /\ r.body.expiry_month # <<>>
          /\ r.body.expiry_year # <<>>
          /\ r.body.cvv # <<>>
          /\ r.body.cardholder_name # ""
          /\ ParseInt(r.body.expiry_month) \in 1..12
          /\ ParseInt(r.body.expiry_year) >= CurrentYear
    ]_vars

\* C10: validatePassword answers the too-short message for fewer than 8
\* characters, else the missing-uppercase message when no A-Z occurs, else
\* the missing-digit message when no 0-9 occurs, else nothing; so it
\* answers a message exactly for passwords that are short or lack an
\* upper-case letter or lack a digit, and a rejected password change shows
\* that message
C10_FirstFailingPasswordCheck ==
  /\ \A s \in {signup.form.password, prof.passForm.new_password} :
       /\ PwShort(s) => validatePassword(s) = MsgTooShort
       /\ (~PwShort(s) /\ PwNoUpper(s)) => validatePassword(s) = MsgNoUpper
       /\ (~PwShort(s) /\ ~PwNoUpper(s) /\ PwNoDigit(s)) =>
            validatePassword(s) = MsgNoDigit
       /\ (~PwShort(s) /\ ~PwNoUpper(s) /\ ~PwNoDigit(s)) =>
            validatePassword(s) = ""
       /\ (validatePassword(s) # "") <=>
            (PwShort(s) \/ PwNoUpper(s) \/ PwNoDigit(s))
  /\ (last.op = "submitPasswordChange" /\ last.out = "rejected") =>
       LET s == prof.passForm.new_password
       IN /\ PwShort(s) => prof.status = Danger(MsgTooShort)
          /\ (~PwShort(s) /\ PwNoUpper(s)) => prof.status = Danger(MsgNoUpper)
          /\ (~PwShort(s) /\ ~PwNoUpper(s) /\ PwNoDigit(s)) =>
               prof.status = Danger(MsgNoDigit)

\* a long enough password with neither an upper-case letter nor a digit
\* was turned down for the upper-case letter
C10_Witness ==
  /\ last.op = "submitPasswordChange"
  /\ last.out = "rejected"
  /\ Len(prof.passForm.new_password) >= 8
  /\ PwNoUpper(prof.passForm.new_password)
  /\ PwNoDigit(prof.passForm.new_password)
  /\ prof.status = Danger(MsgNoUpper)

\* C11: Save Billing passes a non-empty invoice e-mail (it does not reject
\* the form as having an invalid invoice e-mail address) exactly when the
\* string has no whitespace, exactly one "@", a non-empty local part
\* before it, and after it a domain holding a "." with at least one
\* character of the domain on each side; "not-an-email" and "a@b" are
\* rejected.
WellFormedEmail(s) ==
  /\ \A k \in 1..Len(s) : s[k] \notin Whitespace
  /\ Cardinality({k \in 1..Len(s) : s[k] = "@"}) = 1
  /\ LET at == CHOOSE k \in 1..Len(s) : s[k] = "@"
     IN /\ at > 1
        /\ \E j \in (at + 1)..Len(s) :
             s[j] = "." /\ j > at + 1 /\ j < Len(s)

C11_EmailCheckShape ==
  (/\ OnBilling
   /\ last.op = "saveBilling"
   /\ bill.form.invoice_email # <<>>)
  => /\ (last.out = "rejected" /\ bill.status = Danger(MsgBadInvoice))
          <=> ~WellFormedEmail(bill.form.invoice_email)
     /\ bill.form.invoice_email \in {BadEmail, NotAnEmail}
          => bill.status = Danger(MsgBadInvoice)

\* an address with a second dot in its domain went out
C11_Witness ==
  /\ OnBilling
  /\ last.op = "saveBilling"
  /\ last.out = "sent"
  /\ Len(bill.form.invoice_email) > Len(GoodEmail)
  /\ Cardinality({k \in 1..Len(bill.form.invoice_email) :
                    bill.form.invoice_email[k] = "."}) = 2

\* C12: when a request of a form fails, the form that issued it (still
\* mounted) shows a danger status whose message is the response body's
\* "error" if non-empty, else the body's "message" if non-empty, else the
\* transport error's own message.
FormOf(op) ==
  CASE op = "RespLogin" -> "login"
    [] op = "RespSignup" -> "signup"
    [] op \in {"RespFetchProfile", "RespPutProfile", "RespChangePassword",
               "RespDeleteAccount"} -> "profile"
    [] op \in {"RespLoadSettings", "RespSaveSettings"} -> "notifications"
    [] op \in {"RespLoadBilling", "RespPutBilling"} -> "billing"
    [] op \in {"RespLoadPlans", "RespPutPlans"} -> "plans"
    [] OTHER -> "none"

StatusOf(c) ==
  CASE c = "login" -> login.status
    [] c = "signup" -> signup.status
    [] c = "profile" -> prof.status
    [] c = "notifications" -> notif.status
    [] c = "billing" -> bill.status
    [] c = "plans" -> plans.status
    [] OTHER -> NoStatus

\* the requests that left the network in this step
Leaving == { r \in BagToSet(net) : CopiesIn(r, net') < CopiesIn(r, net) }

PriorityMsg(f) ==
  IF f.error # "" THEN f.error
  ELSE IF f.message # "" THEN f.message
  ELSE f.transport

C12_FailureMessagePriority ==
  [][ \A r \in Leaving :
        (/\ last'.out = "fail"
         /\ FormOf(last'.op) # "none"
         /\ r.from = FormOf(last'.op)
         /\ ~r.orphan)
        => StatusOf(r.from)' = Danger(PriorityMsg(last'.res)) ]_vars

\* the Notifications save failed with a body that has "error" and "message"
C12_Witness ==
  /\ last.op = "RespSaveSettings"
  /\ last.out = "fail"
  /\ last.res.error # ""
  /\ last.res.message # ""
  /\ notif.status = Danger(last.res.error)

\* C13: for profile edit, password change, notifications save, billing
\* save and plans save, when a submit whose request succeeded finishes
\* (loading goes back to false) the form's status is the success status
\* with the message of that response.  A billing save finishes when the
\* reload that saveBilling awaits has answered.
LoadingOf(c) ==
  CASE c = "login" -> login.loading
    [] c = "signup" -> signup.loading
    [] c = "profile" -> prof.loading
    [] c = "notifications" -> notif.loading
    [] c = "billing" -> bill.loading
    [] c = "plans" -> plans.loading
    [] OTHER -> FALSE

C13_SuccessStatusAfterSubmit ==
  [][ \A r \in Leaving :
        /\ (/\ last'.op \in {"RespPutProfile", "RespChangePassword",
                              "RespSaveSettings", "RespPutPlans"}
             /\ last'.out = "ok"
             /\ r.from = FormOf(last'.op)
             /\ ~r.orphan)
            => /\ ~LoadingOf(r.from)'
               /\ StatusOf(r.from)' = Success(last'.res.message)
        /\ (/\ last'.op = "RespLoadBilling"
             /\ r.kind = "loadBilling"
             /\ r.body.viaSave
             /\ ~bill.loading')
            => bill.status' \in { Success(m) : m \in ServerMsgs } ]_vars

\* C14: on each screen (Login, Signup, Profile with its account delete,
\* Notifications, Billing, Plans) at most one submission request of the
\* mounted form is in flight at any time.
SubmitKinds ==
  {"login", "signup", "putProfile", "changePassword", "deleteAccount",
   "putSettings", "putBilling", "putPlans"}

RECURSIVE CopiesOf(_, _)
CopiesOf(n, rs) ==
  IF rs = {} THEN 0
  ELSE LET r == CHOOSE x \in rs : TRUE
       IN CopiesIn(r, n) + CopiesOf(n, rs \ {r})

SubmitsInFlight(c) ==
  CopiesOf(net, { r \in BagToSet(net) :
                    r.from = c /\ r.kind \in SubmitKinds /\ ~r.orphan })

C14_OneSubmitInFlight ==
  \A c \in Components : SubmitsInFlight(c) <= 1

\* C15: the dashboard is on screen only while the session token is
\* non-null, and opening /dashboard with a null token (at the start, or
\* after Logout, an account deletion or a cleared session) lands on /login.
C15_DashboardNeedsToken ==
  /\ route = "/dashboard" => token # Null
  /\ \A c \in Components \ {"app", "login", "signup", "pages"} :
       Shown(c, route, activePage) => token # Null
  /\ (last.op = "OpenUrl" /\ last.out = "/dashboard" /\ token = Null)
       => route = "/login"
  /\ (token = Null /\ last.op \in {"Logout", "RespDeleteAccount", "RespLoadMe"})
       => route # "/dashboard"

\* with no token the user typed the /dashboard URL and got the login page
C15_Witness ==
  /\ last.op = "OpenUrl"
  /\ last.out = "/dashboard"
  /\ token = Null
  /\ route = "/login"

\* C16: the login or signup screen is on screen only while the session
\* token is null, and opening /login or /signup with a non-null token
\* lands on the dashboard.
C16_AuthScreensNeedNoToken ==
  /\ route \in {"/login", "/signup"} => token = Null
  /\ (last.op = "OpenUrl" /\ last.out \in {"/login", "/signup"}
        /\ token # Null)
       => route = "/dashboard"

\* C17: after the Logout action the in-memory token is null, the cached
\* user is null, the persisted "token" entry is gone and the route is
\* /login.
C17_LogoutClearsSession ==
  last.op = "Logout"
  => /\ token = Null
     /\ user = NoUser
     /\ stored = Null
     /\ route = "/login"

\* a Logout while a request of the dashboard was still in flight
C17_Witness ==
  /\ last.op = "Logout"
  /\ token = Null
  /\ user = NoUser
  /\ stored = Null
  /\ route = "/login"
  /\ \E r \in BagToSet(net) : r.orphan /\ r.tok # Null

\* C18: through app start, login and signup success, Logout, account
\* deletion and a failed GET /auth/me, the persisted "token" entry (the
\* only entry the app writes) equals the in-memory token, and is absent
\* exactly when the in-memory token is null.
C18_StoredEqualsToken ==
  /\ stored = token
  /\ (stored = Null) <=> (token = Null)

\* a failed GET /auth/me removed the entry together with the token
C18_Witness ==
  /\ last.op = "RespLoadMe"
  /\ last.out = "fail"
  /\ token = Null
  /\ stored = Null

\* C19: the session token goes from non-null to null only in (a) the
\* Logout action, (b) a successful account deletion, or (c) a failed
\* app-level GET /auth/me; every other step, the failed requests of the
\* forms included, leaves a non-null token non-null.
C19_OnlyThreeWaysToNull ==
  [][ (token # Null /\ token' = Null)
      => \/ last'.op = "Logout"
         \/ last'.op = "RespDeleteAccount" /\ last'.out = "ok"
         \/ last'.op = "RespLoadMe" /\ last'.out = "fail" ]_vars

\* the Billing save was refused with a 401 and the session is still there
C19_Witness ==
  /\ last.op = "RespPutBilling"
  /\ last.out = "fail"
  /\ last.res.code = 401
  /\ token # Null
  /\ stored = token

\* C20: whenever an authenticated request of a form (profile edit,
\* password change, account delete, notifications, billing or plans load
\* or save) fails with a 401, the session is cleared and the route is
\* /login.
C20_Unauthorized401ClearsSession ==
  (/\ last.op \in {"RespPutProfile", "RespChangePassword",
                    "RespDeleteAccount", "RespLoadSettings",
                    "RespSaveSettings", "RespLoadBilling", "RespPutBilling",
                    "RespLoadPlans", "RespPutPlans"}
   /\ last.out = "fail"
   /\ last.res.code = 401)
  => /\ token = Null
     /\ user = NoUser
     /\ stored = Null
     /\ route = "/login"

\* C21: the Profile screen mounts in mode "view"; while it stays mounted,
\* mode leaves "view" only by the matching open action, goes from a
\* sub-state back to "view" only on cancel or on a successful name or
\* password submit, never goes from one sub-state to another, and a failed
\* or locally rejected submit leaves it unchanged.
ProfileSubmitOps ==
  {"submitNameChange", "RespPutProfile", "submitPasswordChange",
   "RespChangePassword", "handleDeleteAccount", "RespDeleteAccount"}

C21_ProfileModeMachine ==
  [][ /\ (~OnProfile /\ OnProfile') => prof.mode' = "view"
      /\ (OnProfile /\ OnProfile')
         => /\ (prof.mode = "view" /\ prof.mode' # "view")
                => \/ last'.op = "openEditName" /\ prof.mode' = "editName"
                   \/ /\ last'.op = "openChangePassword"
                      /\ prof.mode' = "changePassword"
                   \/ /\ last'.op = "openDeleteAccount"
                      /\ prof.mode' = "deleteAccount"
            /\ (prof.mode # "view" /\ prof.mode' = "view")
                => \/ last'.op = "cancelMode"
                   \/ /\ last'.op \in {"RespPutProfile", "RespChangePassword"}
                      /\ last'.out = "ok"
            /\ (prof.mode # "view" /\ prof.mode' # "view")
                => prof.mode' = prof.mode
            /\ (last'.op \in ProfileSubmitOps
                  /\ last'.out \in {"fail", "rejected"})
                => prof.mode' = prof.mode ]_vars

\* a password change was refused by the server and its form is still open
C21_Witness ==
  /\ OnProfile
  /\ last.op = "RespChangePassword"
  /\ last.out = "fail"
  /\ prof.mode = "changePassword"
  /\ prof.status.type = "danger"

\* C22: when a request of a form fails, nothing changes but that form's
\* status and loading flag: the field values of every form, the Profile
\* mode and profile, the session token, the persisted token, the cached
\* user, the route and the payment-method flags stay as they were.
Banner(c) == [c EXCEPT !.status = NoStatus, !.loading = FALSE]

C22_FailureOnlyTouchesBanner ==
  [][ (FormOf(last'.op) # "none" /\ last'.out = "fail")
      => /\ token' = token
         /\ user' = user
         /\ stored' = stored
         /\ route' = route
         /\ activePage' = activePage
         /\ Banner(login)' = Banner(login)
         /\ Banner(signup)' = Banner(signup)
         /\ Banner(prof)' = Banner(prof)
         /\ Banner(notif)' = Banner(notif)
         /\ Banner(bill)' = Banner(bill)
         /\ Banner(plans)' = Banner(plans)
         /\ \A c \in Components \ {FormOf(last'.op)} :
              /\ StatusOf(c)' = StatusOf(c)
              /\ LoadingOf(c)' = LoadingOf(c) ]_vars

\* a refused Billing save left the typed card number and CVV in the form
C22_Witness ==
  /\ last.op = "RespPutBilling"
  /\ last.out = "fail"
  /\ bill.form.cvv # <<>>
  /\ Len(StripNonDigits(bill.form.card_number)) = 16
  /\ bill.status.type = "danger"
  /\ ~bill.loading

\* C23: within one run of the app the cached user changes only on a login
\* or signup success, a successful GET /auth/me, a successful profile edit
\* or a session clear; after a successful profile edit its first and last
\* name are the submitted ones and its email is the one it had; it is
\* null or a full {email, first_name, last_name} record.
FullUser(u) == DOMAIN u = {"email", "first_name", "last_name"}

C23_UserOnlyFromResponses ==
  [][ last'.op \notin {"OpenUrl", "RespPagesSignup"}
      => /\ user' # user
            => \/ last'.op \in {"RespLogin", "RespSignup"} /\ last'.out = "token"
               \/ /\ last'.op \in {"RespLoadMe", "RespFetchProfile",
                                    "RespPutProfile"}
                  /\ last'.out = "ok"
               \/ /\ user' = NoUser
                  /\ \/ last'.op = "Logout"
                     \/ last'.op = "RespDeleteAccount" /\ last'.out = "ok"
                     \/ last'.op = "RespLoadMe" /\ last'.out = "fail"
         /\ (last'.op = "RespPutProfile" /\ last'.out = "ok")
            => \A r \in Leaving :
                 r.kind = "putProfile"
                 => /\ FullUser(user')
                    /\ user'.first_name = r.body.first_name
                    /\ user'.last_name = r.body.last_name
                    /\ FullUser(user) /\ user'.email = user.email
         /\ user' = NoUser \/ FullUser(user') ]_vars

\* C24: whenever App holds a token but no cached user, a GET /auth/me of
\* App is in flight, and (every such request being answered in the end)
\* the app then reaches a state where the user is non-null or the token is
\* null; it never stays for ever with a token and no user.
LoadMeInFlight ==
  \E r \in BagToSet(net) : r.kind = "loadMe" /\ r.from = "app" /\ ~r.orphan

C24_SessionRefreshCompletes ==
  /\ []((token # Null /\ user = NoUser) => LoadMeInFlight)
  /\ (token # Null /\ user = NoUser) ~> (user # NoUser \/ token = Null)

\* a login answered with a token and no user, and /auth/me then supplied it
C24_Witness ==
  /\ last.op = "RespLoadMe"
  /\ last.out = "ok"
  /\ token # Null
  /\ user = UserOf(token)
  /\ route = "/dashboard"

\* C25: right after a successful billing load the Billing screen's
\* hasPaymentMethod is true exactly when the response carried a non-empty
\* card_last4, card_number is "**** **** **** " followed by that last 4 (or
\* empty when there is none), and expiry_month, expiry_year and cvv are
\* empty; right after a successful plans load the Plans screen's flag is
\* true exactly when its billing response carried a non-empty card_last4.
IsMasked(s, last4) ==
  /\ Len(s) = 15 + Len(last4)
  /\ \A i \in 1..15 : s[i] = IF i % 5 = 0 THEN " " ELSE "*"
  /\ \A i \in 1..Len(last4) : s[15 + i] = last4[i]

C25_PaymentFlagFromLast4 ==
  /\ (last.op = "RespLoadBilling" /\ last.out = "ok")
       => /\ bill.hasPaymentMethod <=> last.res.card_last4 # <<>>
          /\ IF last.res.card_last4 = <<>>
             THEN bill.form.card_number = <<>>
             ELSE IsMasked(bill.form.card_number, last.res.card_last4)
          /\ bill.form.expiry_month = <<>>
          /\ bill.form.expiry_year = <<>>
          /\ bill.form.cvv = <<>>
          /\ ~bill.loading
  /\ (last.op = "RespLoadPlans" /\ last.out = "ok")
       => plans.hasPaymentMethod <=> last.res.billing.card_last4 # <<>>

\* a billing load answered with a card on file
C25_Witness ==
  /\ last.op = "RespLoadBilling"
  /\ last.out = "ok"
  /\ Len(last.res.card_last4) = 4
  /\ bill.hasPaymentMethod
  /\ Len(bill.form.card_number) = 19

\* C26: once a billing save whose PUT succeeded has finished (the reload
\* it awaits has answered, well or not, and loading is back to false), the
\* Billing form's cvv is empty and its card_number is empty or the masked
\* last-4 string.
C26_NoCardSecretsAfterSave ==
  [][ \A r \in Leaving :
        (/\ last'.op = "RespLoadBilling"
         /\ r.kind = "loadBilling"
         /\ r.body.viaSave
         /\ ~bill.loading')
        => /\ bill.form.cvv' = <<>>
           /\ \/ bill.form.card_number' = <<>>
              \/ \E l4 \in {d.card_last4 : d \in BillingData} :
                   l4 # <<>> /\ IsMasked(bill.form.card_number', l4) ]_vars

\* C27: a successful login or signup response that carries no token
\* leaves the session token, the cached user and the persisted token as
\* they were and the route on the form, whose status becomes the success
\* status with the response's message; the persisted token is only ever
\* written with the non-empty token of a login or signup response.
C27_SessionOnlyFromToken ==
  [][ /\ (last'.op \in {"RespLogin", "RespSignup"} /\ last'.out = "notoken")
         => /\ token' = token
            /\ user' = user
            /\ stored' = stored
            /\ route' = route
            /\ \A r \in Leaving :
                 (r.from = FormOf(last'.op) /\ ~r.orphan)
                 => /\ StatusOf(r.from)' = Success(last'.res.message)
                    /\ ~LoadingOf(r.from)'
      /\ (stored' # stored /\ stored' # Null)
         => /\ last'.op \in {"RespLogin", "RespSignup"}
            /\ last'.out = "token"
            /\ stored' = last'.res.token
            /\ stored' \in Tokens ]_vars

\* a signup was accepted without a token: the form shows the message
C27_Witness ==
  /\ last.op = "RespSignup"
  /\ last.out = "notoken"
  /\ route = "/signup"
  /\ signup.status = Success(last.res.message)
  /\ token = Null
  /\ stored = Null

\* C28: for Login, Signup, the Profile's fetch, name and password forms,
\* Notifications, Billing and Plans, the loading flag of a mounted form is
\* true exactly while a request of that form is in flight (a Billing save
\* counts until the reload it awaits has answered), and within one run of
\* the app it goes from true to false only when a response of that form
\* arrives: a request that never resolves leaves it true.
LoadingForms ==
  {"login", "signup", "profile", "notifications", "billing", "plans"}

LoadingKinds ==
  {"login", "signup", "fetchProfile", "putProfile", "changePassword",
   "loadSettings", "putSettings", "loadBilling", "putBilling", "loadPlans",
   "putPlans"}

InFlightOf(c) ==
  { r \in BagToSet(net) :
      r.from = c /\ r.kind \in LoadingKinds /\ ~r.orphan }

IsReload(r) == r.kind = "loadBilling" /\ r.body.viaSave

C29_ReloadOnlyAfterSavedPut ==
  /\ [](\A r \in BagToSet(net) :
          (r.from = "billing" /\ ~r.orphan
            /\ (r.kind = "putBilling" \/ IsReload(r)))
          => bill.loading)
  /\ [][ /\ (\E r \in NewReqs : IsReload(r))
            => last'.op = "RespPutBilling" /\ last'.out = "ok"
         /\ (last'.op = "RespPutBilling" /\ last'.out = "ok")
            => /\ \E r \in NewReqs : IsReload(r)
               /\ bill.loading /\ bill.loading'
         /\ (\/ last'.op = "RespPutBilling" /\ last'.out = "fail"
             \/ last'.op = "saveBilling" /\ last'.out = "rejected")
            => /\ ~Issues("loadBilling")
               /\ ~bill.loading' ]_vars

\* the PUT has succeeded and the reload is the one request in flight
C29_Witness ==
  /\ OnBilling
  /\ last.op = "RespPutBilling"
  /\ last.out = "ok"
  /\ bill.loading
  /\ bill.status = NoStatus
  /\ \A r \in BagToSet(net) : IsReload(r) /\ CopiesIn(r, net) = 1
  /\ net # EmptyBag

\* C30: in every state of the App session a non-null cached user comes
\* with a non-null token; in particular a GET /auth/me answered after a
\* Logout or a session clear does not set the user again.
C30_UserImpliesToken ==
  /\ user # NoUser => token # Null
  /\ (last.op = "RespLoadMe" /\ token = Null) => user = NoUser

\* C31: a GET /auth/me issued for one token and answered while the session
\* holds another token (set by a login or signup in between) leaves the
\* session alone: its failure does not clear the token or localStorage and
\* its success does not replace the session's user.
C31_StaleLoadMeIgnored ==
  [][\A r \in Leaving :
       (last'.op = "RespLoadMe" /\ r.kind = "loadMe"
         /\ token # Null /\ r.tok # token)
       => /\ token' = token
          /\ stored' = stored
          /\ user' = user]_vars

\* the card number field holds the masked string of a card on file, as a
\* billing load writes it
HoldsMask == \E d \in BillingData :
  d.card_last4 # <<>> /\ bill.form.card_number = Mask(d.card_last4)

\* every PUT /settings/billing this step issues carries a card_number that
\* is empty or exactly 16 digits
PutCardIsDigits ==
  \A r \in NewReqs :
    r.kind = "putBilling"
    => \/ r.body.card_number = <<>>
       \/ /\ Len(r.body.card_number) = 16
          /\ \A i \in 1..16 : r.body.card_number[i] \in Digits

\* C32 as stated: every PUT /settings/billing carries an empty or a
\* 16-digit card_number, and a Save Billing pressed while the card number
\* field holds the masked string of a load is rejected with the card-length
\* error and issues no request.
C32_MaskedCardRejectedCardLen ==
  [][ /\ PutCardIsDigits
      /\ (last'.op = "saveBilling" /\ HoldsMask)
         => /\ last'.out = "rejected"
            /\ bill'.status = Danger(MsgCardLen)
            /\ NewReqs = {} ]_vars

\* C32 amended: every PUT /settings/billing carries an empty or a 16-digit
\* card_number, and a Save Billing pressed while the card number field
\* holds the masked string of a load is rejected and issues no request:
\* with the invoice e-mail error when the invoice e-mail is non-empty and
\* fails the e-mail test, else with the card-length error.
C32_MaskedCardNeverSent ==
  [][ /\ PutCardIsDigits
      /\ (last'.op = "saveBilling" /\ HoldsMask)
         => /\ last'.out = "rejected"
            /\ bill'.status =
                 Danger(IF /\ bill.form.invoice_email # <<>>
                           /\ ~emailRegexTest(bill.form.invoice_email)
                        THEN MsgBadInvoice ELSE MsgCardLen)
            /\ bill'.form = bill.form
            /\ NewReqs = {} ]_vars

\* a save has put a card on file, its reload has masked it, and the next
\* Save Billing was rejected for the card's length
C32_Witness ==
  /\ OnBilling
  /\ last.op = "saveBilling"
  /\ last.out = "rejected"
  /\ HoldsMask
  /\ bill.hasPaymentMethod
  /\ bill.form.cvv = <<>>
  /\ bill.status = Danger(MsgCardLen)
  /\ net = EmptyBag

\* C33: when the Profile screen goes from view to editName, changePassword
\* or deleteAccount, every password input of the form it opens is empty
\* and no status banner is shown, whatever an earlier visit to a sub-state
\* left behind.
C33_SubFormOpensClean ==
  [][ (OnProfile /\ OnProfile' /\ prof.mode = "view" /\ prof'.mode # "view")
      => /\ prof'.status = NoStatus
         /\ prof'.mode = "editName"
              => prof'.nameForm.current_password = ""
         /\ prof'.mode = "changePassword"
              => /\ prof'.passForm.old_password = ""
                 /\ prof'.passForm.new_password = <<>>
                 /\ prof'.passForm.confirm_password = <<>>
         /\ prof'.mode = "deleteAccount"
              => prof'.deletePassword = "" ]_vars

\* C34: the selected plan is always one of basic, pro, enterprise, whatever
\* GET /settings/plans answered: the Plans form and the body of every
\* PUT /settings/plans carry a plan of that set, one that has a price
\* entry, so no PUT passes the payment gate on a plan priced 0 for want of
\* an entry.
C34_PlanAlwaysKnown ==
  /\ plans.form.plan \in PlanOptions
  /\ \A r \in BagToSet(net) :
       r.kind = "putPlans"
       => /\ r.body.plan \in PlanOptions
          /\ r.body.plan \in DOMAIN PLAN_PRICING

====
